---- MODULE Spec2Model ----
(***************************************************************************)
(* A model of pyo3-asyncio: the process-wide registry (src/src/lib.rs),    *)
(* the awaitable -> native future conversion (PyEnsureFuture,              *)
(* PyTaskCompleter, PyFuture in src/src/lib.rs) and the native future ->   *)
(* awaitable conversion of the tokio binding (src/src/tokio.rs).           *)
(*                                                                         *)
(* The host event loop is a FIFO queue of callbacks run one at a time on   *)
(* the loop thread; the native side is a set of tasks that step            *)
(* independently of it.                                                    *)
(***************************************************************************)
EXTENDS Integers, Sequences, FiniteSets, TLC

\* Number of awaitable -> future conversions in flight.
NConv == 2
\* Number of native future -> awaitable conversions in flight.
NPyConv == 2
\* How many times in all the host may invoke a callback object again.
MaxRecalls == 1

\* Number of scoped futures made.
NScoped == 2
\* Number of threads calling into the registry.
NThreads == 2
\* How many registry calls the threads make in all.
MaxCalls == 3
\* How many init / get_runtime calls the threads make in all.
MaxTokioCalls == 4

Conv == 1..NConv
Threads == 1..NThreads
Scoped == 1..NScoped
PyConv == 1..NPyConv

Values == {"v1", "v2"}
Excs == {"e1"}
None == <<"None">>
Ok(v) == <<"Ok", v>>
Err(e) == <<"Err", e>>

\* asyncio.CancelledError, lib.rs:374
CancelledError == "CancelledError"

\* What a host task's result() gives: a value, or a raised exception.
Results == {Ok(v) : v \in Values} \cup {Err(e) : e \in Excs}

\* The objects handed to into_future: a coroutine that will finish with
\* `out`; an object ensure_future rejects; a future-like object
\* whose add_done_callback raises.
Awaitables ==
    [kind : {"coro"}, out : Results]
        \cup {[kind |-> "notawaitable", out |-> None],
              [kind |-> "badfuture", out |-> None]}

\* The registry cells, lib.rs:152-157.
Cells == {"ASYNCIO", "ENSURE_FUTURE", "EVENT_LOOP", "EXECUTOR", "CALL_SOON",
          "CREATE_FUTURE"}

VARIABLES
    registry,    \* the populated registry cells
    loopClosed,  \* the cached loop has been closed
    ready,       \* the loop's FIFO queue of scheduled callbacks
    awaitable,   \* per conversion: the awaitable given to try_from
    ensureFut,   \* per conversion: the PyEnsureFuture object
    completer,   \* per conversion: the PyTaskCompleter object
    task,        \* per conversion: the host task made by ensure_future
    chan,        \* per conversion: the one-shot channel
    pyfut,       \* per conversion: the PyFuture and its awaiting task
    native,      \* per future_into_py conversion: the spawned native task
    placeholder, \* per future_into_py conversion: the host future returned
    cache,       \* the handle cached in each registry cell (0: the cell is empty)
    host,        \* what the registry's calls have done to the host so far
    once,        \* the thread running EVENT_LOOP's initializer (0: none)
    thr,         \* per thread: the registry call in progress and its last result
    tls,         \* per thread: the TASK_LOCALS slot of the thread
    stack,       \* per thread: the scoped futures being polled, innermost last
    sfut,        \* per scoped future: its state and the value it holds
    run,         \* the tokio::run call made, if any
    gil,         \* who holds the global interpreter lock
    tokio,       \* TOKIO_BUILDER and TOKIO_RUNTIME, and what was done to them
    tcall        \* per thread: its init / get_runtime call in progress

\* The state of the awaitable -> future conversions, of the future ->
\* awaitable conversions, and of the loop both share.
intoVars == <<registry, awaitable, ensureFut, completer, task, chan, pyfut>>
pyVars == <<native, placeholder>>
loopVars == <<loopClosed, ready>>
\* The state of the registry's calls and of the task-local scopes.
rtVars == <<cache, host, once, thr>>
tlVars == <<tls, stack, sfut, run>>
\* The state of the tokio runtime's statics and of the calls on them.
tokioVars == <<tokio, tcall>>
vars == <<registry, loopClosed, ready, awaitable, ensureFut, completer, task,
          chan, pyfut, native, placeholder, cache, host, once, thr, tls,
          stack, sfut, run, gil, tokio, tcall>>

-----------------------------------------------------------------------------
(* futures::channel::oneshot, as lib.rs uses it *)

\* oneshot::channel(): no value, both halves alive.  sends / failed / drops
\* count what happened to the sender: a value stored, a send refused because
\* the receiver was gone, the sender dropped without sending.
NewChannel ==
    [made |-> TRUE, data |-> None, sends |-> 0, failed |-> 0, drops |-> 0,
     rx |-> "alive"]

NoChannel ==
    [made |-> FALSE, data |-> None, sends |-> 0, failed |-> 0, drops |-> 0,
     rx |-> "none"]

\* tx.send(item).is_err(): the receiver is gone.
SendIsErr(ch) == ch.rx # "alive"

\* tx.send(item): consumes the sender; stores the item unless the receiver
\* was dropped, in which case the item is handed back (and discarded).
Send(ch, item) ==
    IF SendIsErr(ch)
    THEN [ch EXCEPT !.failed = @ + 1]
    ELSE [ch EXCEPT !.data = item, !.sends = @ + 1]

\* Dropping a sender that was never used.
DropTx(ch) == [ch EXCEPT !.drops = @ + 1]

\* Dropping the receiver discards a stored value.
DropRx(ch) == [ch EXCEPT !.rx = "dropped", !.data = None]

\* The sender is gone: used or dropped.
TxGone(ch) == ch.sends + ch.failed + ch.drops > 0

\* Receiver::poll: the stored item, else Canceled once the sender is gone,
\* else Pending.
Recv(ch) ==
    IF ch.data # None THEN <<"Ready", "Ok", ch.data>>
    ELSE IF TxGone(ch) THEN <<"Ready", "Canceled", None>>
    ELSE <<"Pending", "Pending", None>>

-----------------------------------------------------------------------------
(* lib.rs *)

NoAwaitable == [kind |-> "none", out |-> None]
\* No PyEnsureFuture yet.  calls / wrapped / attached count its invocations,
\* the ensure_future calls that made a host task of the awaitable and the
\* add_done_callback calls that attached a completion handler; exc is the
\* exception its last invocation returned to the loop.
NoObj == [st |-> "none", tx |-> FALSE, calls |-> 0, wrapped |-> 0,
          attached |-> 0, ret |-> "none", exc |-> "none"]
NoCompleter == [st |-> "none", tx |-> FALSE, calls |-> 0, ret |-> "none"]
NoTask == [st |-> "none", result |-> None]
NoFut == [st |-> "none", out |-> None, readies |-> 0]
NoNative == [st |-> "none", will |-> None, handle |-> FALSE, aborts |-> 0,
             joined |-> FALSE]
NoPlaceholder == [st |-> "none", val |-> None, by |-> "none", cause |-> "none",
                  doneCb |-> "none", writes |-> 0, faults |-> 0]

\* No call made yet: nothing cached, nothing done to the host, no thread in
\* a call.
EmptyCache == [c \in Cells |-> 0]
NoHost == [executors |-> 0, installs |-> 0, default |-> 0, populations |-> 0,
           shutdowns |-> 0, stops |-> 0, closes |-> 0]
NoCall == [op |-> "none", pc |-> "none", ret |-> None, log |-> <<>>,
           exec |-> 0, result |-> None, calls |-> 0]
\* TASK_LOCALS on a thread that is in no scope (tokio.rs:49-51), and a
\* scoped future not made yet.
Unset == <<"Unset">>
NoScoped == [st |-> "none", kind |-> "none", slot |-> Unset, locals |-> None,
             parent |-> 0, pin |-> 0, on |-> 0, suspended |-> FALSE, by |-> 0]
NoRun == [st |-> "none", fut |-> 0, loop |-> None, will |-> None, ret |-> None]

\* The holders of the global interpreter lock: nobody, the native task
\* awaiting the future of conversion c, or the thread t that calls into the
\* registry with its `py: Python` token (lib.rs:208).  Where the callers are
\* not followed step by step they take the lock for a whole call and have
\* given it back when the call is over.
Free == <<"free", 0>>
NativeTask(c) == <<"task", c>>
Caller(t) == <<"thread", t>>

\* fn multi_thread(), tokio.rs:154-158: the builder TOKIO_BUILDER starts
\* with; and the builders callers pass to init.
MultiThread == "multi_thread"
Builders == {"current_thread", "custom"}

\* A runtime: the build that made it and the builder it was built from.
\* What a call has returned is written the same way: no runtime for a call
\* that has returned nothing, for init's () and for a panic.
Runtime(id, from) == [id |-> id, from |-> from]
NoRuntime == Runtime(0, "none")
Returned0 == Runtime(0, "()")
Panicked == Runtime(0, "panic")

\* The statics before any call (tokio.rs:38-39): the builder is
\* multi_thread(), the runtime cell is empty, the builder's mutex is not
\* poisoned and no thread runs the cell's initializer.
NoTokio == [builder |-> MultiThread, poisoned |-> FALSE, runtime |-> NoRuntime,
            running |-> 0, builds |-> 0, inits |-> 0, lastInit |-> MultiThread,
            calls |-> 0]
NoTokioCall == [op |-> "none", pc |-> "idle", arg |-> "none", ret |-> NoRuntime,
                early |-> FALSE]

\* PyResult<()>'s Ok(()).
Unit == "()"

\* The cells that hold a handle.
Populated(cells) == {c \in Cells : cells[c] # 0}

\* asyncio.get_event_loop() on thread t (lib.rs:212): the current loop of the
\* calling thread.
HostLoopOf(t) == t

\* The stores at the end of try_init's closure (lib.rs:222-227) and the
\* value get_or_try_init stores in EVENT_LOOP: the loop of the thread that
\* ran the closure, the loop's two bound methods, the executor the closure
\* made, and the asyncio module and its ensure_future.
Populate(t, exec) ==
    [c \in Cells |->
        CASE c \in {"EVENT_LOOP", "CALL_SOON", "CREATE_FUTURE"} -> HostLoopOf(t)
          [] c = "EXECUTOR" -> exec
          [] OTHER -> 1]

\* ThreadPoolExecutor() then set_default_executor (lib.rs:213-217): a new
\* executor each time, installed as the loop's default.
MakeExecutor(h) == [h EXCEPT !.executors = @ + 1]
InstallExecutor(h, exec) == [h EXCEPT !.installs = @ + 1, !.default = exec]

\* executor.shutdown(), loop.stop(), loop.close() (lib.rs:298-304), counted.
HostShutdown(h) == [h EXCEPT !.shutdowns = @ + 1]
HostStop(h) == [h EXCEPT !.stops = @ + 1]
HostClose(h) == [h EXCEPT !.closes = @ + 1]

Init ==
    /\ registry = {}
    /\ cache = EmptyCache
    /\ host = NoHost
    /\ once = 0
    /\ thr = [t \in Threads |-> NoCall]
    /\ tls = [t \in Threads |-> Unset]
    /\ stack = [t \in Threads |-> <<>>]
    /\ sfut = [f \in Scoped |-> NoScoped]
    /\ run = NoRun
    /\ gil = Free
    /\ tokio = NoTokio
    /\ tcall = [t \in Threads |-> NoTokioCall]
    /\ loopClosed = FALSE
    /\ ready = <<>>
    /\ awaitable = [c \in Conv |-> NoAwaitable]
    /\ ensureFut = [c \in Conv |-> NoObj]
    /\ completer = [c \in Conv |-> NoCompleter]
    /\ task = [c \in Conv |-> NoTask]
    /\ chan = [c \in Conv |-> NoChannel]
    /\ pyfut = [c \in Conv |-> NoFut]
    /\ native = [k \in PyConv |-> NoNative]
    /\ placeholder = [k \in PyConv |-> NoPlaceholder]

\* try_init as one uncontended call on thread 1: a no-op once EVENT_LOOP is
\* set; otherwise the closure runs and, unless a host call raises (here: the
\* first one, the import), makes and installs an executor and fills every
\* cell.
TryInit(hostOk) ==
    /\ once = 0
    /\ LET skip == "EVENT_LOOP" \in registry \/ ~hostOk
           made == MakeExecutor(host)
       IN /\ registry' = IF skip THEN registry ELSE Cells
          /\ cache' = IF skip THEN cache ELSE Populate(1, made.executors)
          /\ host' = IF skip THEN host
                     ELSE [InstallExecutor(made, made.executors)
                              EXCEPT !.populations = @ + 1]
    /\ UNCHANGED <<loopClosed, ready, awaitable, ensureFut, completer, task,
                   chan, pyfut>>
    /\ UNCHANGED pyVars
    /\ UNCHANGED <<once, thr, tlVars, gil, tokioVars>>


\* A take that leaves the sender in the field as well (the sender duplicated).
TakeTxKept(obj) == [obj |-> obj, tx |-> obj.tx]

\* Option::take on an object's tx field (lib.rs:329, lib.rs:351): the sender
\* moves out and the field is left None.
TakeTx(obj) == [obj |-> [obj EXCEPT !.tx = FALSE], tx |-> obj.tx]

\* Dropping a callback object drops the sender it still holds.
DropObj(obj, ch) == IF obj.tx THEN DropTx(ch) ELSE ch

\* A callback in the loop's queue: its kind, the conversion it belongs to and
\* the argument it carries.
Callback(kind, c, val) == [kind |-> kind, conv |-> c, val |-> val]

\* The loop thread is about to run callback `kind` of conversion c.
AtHead(kind, c) ==
    /\ ready # <<>>
    /\ Head(ready).kind = kind
    /\ Head(ready).conv = c

\* A scheduling call that never reaches the loop's queue.
CallSoonLost(queue, cb) == queue

\* CALL_SOON.get().expect(EXPECT_INIT).call1(py, (callback,)), lib.rs:389:
\* call_soon_threadsafe appends the callback to the loop's queue.
CallSoon(queue, cb) == Append(queue, cb)

\* A try_from that wraps the awaitable and attaches the handler itself.
NewEnsureFutureWrapped(a) ==
    [NoObj EXCEPT !.st = "queued", !.tx = TRUE, !.wrapped = 1, !.attached = 1]

\* PyEnsureFuture { awaitable: awaitable.into(), tx: Some(tx) }, lib.rs:391-394:
\* the object try_from hands to the loop holds the awaitable as it was given
\* and the sender; nothing has been made of the awaitable yet.
NewEnsureFuture(a) == [NoObj EXCEPT !.st = "queued", !.tx = TRUE]

\* A failed scheduling that leaves the sender alive.
FailedScheduleLeaks(ch) == DropRx(ch)

\* The channel after `call1(...)?` returned early (lib.rs:389-396): the
\* argument tuple goes, and with it the PyEnsureFuture and the sender in it;
\* rx is dropped as try_from returns.
FailedSchedule(ch) == DropRx(DropTx(ch))

\* PyFuture::try_from(awaitable); the conversions are numbered in the order
\* they are begun.
PyFuture_try_from(c, a) ==
    /\ gil = Free
    /\ pyfut[c].st = "none"
    /\ \A d \in Conv : d < c => pyfut[d].st # "none"
    /\ awaitable' = [awaitable EXCEPT ![c] = a]
    /\ IF "CALL_SOON" \notin registry
       THEN \* expect(EXPECT_INIT) panics; the channel unwinds
            /\ pyfut' = [pyfut EXCEPT ![c].st = "panic"]
            /\ chan' = [chan EXCEPT ![c] = DropRx(DropTx(NewChannel))]
            /\ UNCHANGED <<ready, ensureFut>>
       ELSE IF loopClosed
       THEN \* call_soon_threadsafe raises: the callback object and the
            \* receiver are dropped and the error is returned
            /\ pyfut' = [pyfut EXCEPT ![c].st = "err"]
            /\ chan' = [chan EXCEPT ![c] = FailedSchedule(NewChannel)]
            /\ ensureFut' = [ensureFut EXCEPT ![c].st = "released"]
            /\ UNCHANGED ready
       ELSE /\ ready' = CallSoon(ready, Callback("ensure", c, None))
            /\ ensureFut' = [ensureFut EXCEPT ![c] = NewEnsureFuture(a)]
            /\ chan' = [chan EXCEPT ![c] = NewChannel]
            /\ pyfut' = [pyfut EXCEPT ![c].st = "pending"]
    /\ UNCHANGED <<registry, loopClosed, completer, task>>
    /\ UNCHANGED pyVars
    /\ UNCHANGED <<rtVars, tlVars, gil, tokioVars>>

\* The exception the host raises when the awaitable a is wrapped: TypeError
\* from ensure_future on an object that is not awaitable, the object's own
\* exception from a failing add_done_callback.
Raises(a) ==
    CASE a.kind = "notawaitable" -> "TypeError"
      [] a.kind = "badfuture" -> "CallbackError"
      [] OTHER -> "none"

\* One invocation of PyEnsureFuture::__call__ on the object obj holding the
\* awaitable a (lib.rs:347-356): the object afterwards, the sender moved into
\* the new PyTaskCompleter (tx), whether ensure_future gave a host task and
\* whether the PyTaskCompleter ended up attached to it.  ensure_future raises
\* on an object that is not awaitable and `?` returns before the take; it
\* makes a new host task of a coroutine on every call and returns a
\* future-like object as it is; when add_done_callback raises, the
\* PyTaskCompleter is dropped with what it took.
EnsureCall(obj, a) ==
    LET tk == TakeTx(obj)
    IN IF a.kind = "notawaitable"
       THEN [obj |-> [obj EXCEPT !.calls = @ + 1, !.ret = "err",
                                 !.exc = Raises(a)],
             tx |-> FALSE, task |-> FALSE, handler |-> FALSE]
       ELSE IF a.kind = "badfuture"
       THEN [obj |-> [tk.obj EXCEPT !.calls = @ + 1, !.ret = "err",
                                    !.exc = Raises(a)],
             tx |-> tk.tx, task |-> TRUE, handler |-> FALSE]
       ELSE [obj |-> [tk.obj EXCEPT !.calls = @ + 1, !.wrapped = @ + 1,
                                    !.attached = @ + 1, !.ret = "ok"],
             tx |-> tk.tx, task |-> TRUE, handler |-> TRUE]

\* What an invocation of conversion c's PyEnsureFuture does to the host task,
\* to the PyTaskCompleter that holds the sender and to the channel.  A
\* PyTaskCompleter made without a sender, and the host task it is attached
\* to, are counted in the object and not followed further: they carry
\* nothing into the channel.
EnsureInvoked(c, r) ==
    /\ task' = IF r.task /\ r.handler /\ task[c].st = "none"
               THEN [task EXCEPT ![c].st = "pending"]
               ELSE task
    /\ completer' =
           IF r.handler /\ completer[c].st = "none"
           THEN [completer EXCEPT ![c].st = "attached", ![c].tx = r.tx]
           ELSE IF r.task /\ ~r.handler /\ completer[c].st = "none"
           THEN [completer EXCEPT ![c].st = "dropped"]
           ELSE completer

\* PyEnsureFuture::__call__, run by the loop; the loop's handle then releases
\* the callback object, which drops whatever the object still holds.
PyEnsureFuture_call(c) ==
    /\ gil = Free
    /\ AtHead("ensure", c)
    /\ ready' = Tail(ready)
    /\ LET r == EnsureCall(ensureFut[c], awaitable[c])
       IN /\ EnsureInvoked(c, r)
          /\ ensureFut' = [ensureFut EXCEPT ![c] =
                              [r.obj EXCEPT !.st = "released", !.tx = FALSE]]
          /\ chan' = [chan EXCEPT ![c] =
                         DropObj(r.obj,
                                 IF r.handler THEN @ ELSE DropObj([tx |-> r.tx], @))]
    /\ UNCHANGED <<registry, loopClosed, awaitable, pyfut>>
    /\ UNCHANGED pyVars
    /\ UNCHANGED <<rtVars, tlVars, gil, tokioVars>>

\* The host invokes the PyEnsureFuture of conversion c once more than its
\* handle does: the object stays in the queue and is invoked again, and
\* released, when the handle runs.
EnsureCalledAgain(c) ==
    /\ gil = Free
    /\ AtHead("ensure", c)
    /\ ensureFut[c].calls < MaxRecalls
    /\ LET r == EnsureCall(ensureFut[c], awaitable[c])
       IN /\ EnsureInvoked(c, r)
          /\ ensureFut' = [ensureFut EXCEPT ![c] = r.obj]
          /\ chan' = [chan EXCEPT ![c] =
                         IF r.handler THEN @ ELSE DropObj([tx |-> r.tx], @)]
    /\ UNCHANGED <<registry, loopClosed, ready, awaitable, pyfut>>
    /\ UNCHANGED pyVars
    /\ UNCHANGED <<rtVars, tlVars, gil, tokioVars>>

\* The host task of conversion c finishes on the loop thread and schedules
\* its done callbacks (call_soon).
TaskFinish(c) ==
    /\ gil = Free
    /\ ~loopClosed
    /\ task[c].st = "pending"
    /\ task' = [task EXCEPT ![c] = [st |-> "done", result |-> awaitable[c].out]]
    /\ IF completer[c].st = "attached"
       THEN /\ ready' = Append(ready, Callback("completer", c, None))
            /\ completer' = [completer EXCEPT ![c].st = "queued"]
       ELSE UNCHANGED <<ready, completer>>
    /\ UNCHANGED <<registry, loopClosed, awaitable, ensureFut, chan, pyfut>>
    /\ UNCHANGED pyVars
    /\ UNCHANGED <<rtVars, tlVars, gil, tokioVars>>

\* A host task that does not report itself done to its done callbacks.
TaskDoneNever(t) == FALSE

\* task.call_method0("done"), lib.rs:318
TaskDone(t) == t.st = "done"

\* A match that wraps a raised exception as a value.
TaskResultAlwaysOk(t) == Ok(t.result[2])

\* match task.call_method0("result"), lib.rs:320-323
TaskResultOf(t) == t.result

\* A failed send treated as a fault (`tx.send(result).unwrap()`).
AfterSendUnwrap(isErr) == IF isErr THEN "panic" ELSE "ok"

\* if tx.send(result).is_err() { /* cancellation is not an error */ }
AfterSend(isErr) == "ok"

\* A completer that keeps no record of having sent: it sends on every call.
CompleterCallResends(comp, ch, t) ==
    [completer |-> [comp EXCEPT !.calls = @ + 1, !.ret = "ok", !.tx = FALSE],
     chan |-> Send(ch, TaskResultOf(t))]

\* PyTaskCompleter::__call__(task) on the completer comp, channel ch, task t
CompleterCall(comp, ch, t) ==
    IF ~TaskDone(t)
    THEN [completer |-> [comp EXCEPT !.ret = "panic", !.calls = @ + 1], chan |-> ch]
    ELSE LET tk == TakeTx(comp)
         IN [completer |->
                 [tk.obj EXCEPT !.calls = @ + 1,
                                !.ret = IF tk.tx THEN AfterSend(SendIsErr(ch)) ELSE "ok"],
             chan |-> IF tk.tx THEN Send(ch, TaskResultOf(t)) ELSE ch]

\* The loop runs the done callback of conversion c's task.
PyTaskCompleter_call(c) ==
    /\ gil = Free
    /\ AtHead("completer", c)
    /\ ready' = Tail(ready)
    /\ LET r == CompleterCall(completer[c], chan[c], task[c])
       IN /\ completer' = [completer EXCEPT ![c] = [r.completer EXCEPT !.st = "called"]]
          /\ chan' = [chan EXCEPT ![c] = r.chan]
    /\ UNCHANGED <<registry, loopClosed, awaitable, ensureFut, task, pyfut>>
    /\ UNCHANGED pyVars
    /\ UNCHANGED <<rtVars, tlVars, gil, tokioVars>>

\* The invocations of completion callback objects after their first, over
\* the conversions 1..n.
RECURSIVE RecallsUpTo(_)
RecallsUpTo(n) ==
    IF n = 0 THEN 0
    ELSE RecallsUpTo(n - 1)
             + (IF completer[n].calls > 1 THEN completer[n].calls - 1 ELSE 0)

\* The host invokes the same completion callback object again.
CompleterCalledAgain(c) ==
    /\ gil = Free
    /\ completer[c].st = "called"
    /\ RecallsUpTo(NConv) < MaxRecalls
    /\ LET r == CompleterCall(completer[c], chan[c], task[c])
       IN /\ completer' = [completer EXCEPT ![c] = r.completer]
          /\ chan' = [chan EXCEPT ![c] = r.chan]
    /\ UNCHANGED <<registry, loopClosed, ready, awaitable, ensureFut, task, pyfut>>
    /\ UNCHANGED pyVars
    /\ UNCHANGED <<rtVars, tlVars, gil, tokioVars>>

\* The error PyFuture::poll makes of a disconnected channel, lib.rs:369-377
CanceledOutput == Err(CancelledError)

\* A poll that treats the disconnected channel as not ready yet.
PollOutputHangs(r) ==
    IF r[2] = "Ok" THEN <<"Ready", r[3]>> ELSE <<"Pending", None>>

\* The match of PyFuture::poll on what the receiver's poll gave, lib.rs:367-379
PollOutput(r) ==
    IF r[1] = "Pending" THEN <<"Pending", None>>
    ELSE IF r[2] = "Ok" THEN <<"Ready", r[3]>>
    ELSE <<"Ready", CanceledOutput>>

\* A poll that takes the lock before it looks at the receiver.
WithGilAlways(r) == TRUE

\* The arm of PyFuture::poll that runs inside Python::with_gil, lib.rs:369:
\* the one for a disconnected channel.
WithGil(r) == r[1] = "Ready" /\ r[2] = "Canceled"

\* The end of the with_gil closure, lib.rs:377: the lock is released before
\* poll returns.
GilReleased(holder) == Free

\* PyFuture::poll returns on conversion c: Pending leaves the future as it
\* is; Ready hands the output to the awaiting task; the expect(EXPECT_INIT)
\* of the CancelledError arm panics when ASYNCIO is not set.
PollReturns(c, r) ==
    LET o == PollOutput(r)
    IN IF o[1] = "Pending"
       THEN /\ pyfut' = [pyfut EXCEPT ![c].st = "pending"]
            /\ UNCHANGED chan
       ELSE IF r[2] = "Canceled" /\ "ASYNCIO" \notin registry
       THEN /\ pyfut' = [pyfut EXCEPT ![c].st = "panic"]
            /\ UNCHANGED chan
       ELSE /\ pyfut' = [pyfut EXCEPT ![c] =
                            [st |-> "ready", out |-> o[2], readies |-> @.readies + 1]]
            /\ chan' = [chan EXCEPT ![c].data = None]

\* PyFuture::poll by the task awaiting the future: the receiver is polled
\* (lib.rs:367); an arm outside with_gil returns at once, the arm inside
\* first waits for the lock and takes it.
PollBegin(c) ==
    /\ pyfut[c].st = "pending"
    /\ LET r == Recv(chan[c])
       IN IF WithGil(r)
          THEN /\ gil = Free
               /\ gil' = NativeTask(c)
               /\ pyfut' = [pyfut EXCEPT ![c].st = "locked"]
               /\ UNCHANGED chan
          ELSE /\ PollReturns(c, r)
               /\ UNCHANGED gil
    /\ UNCHANGED <<registry, loopClosed, ready, awaitable, ensureFut, completer, task>>
    /\ UNCHANGED pyVars
    /\ UNCHANGED <<rtVars, tlVars, tokioVars>>

\* ... and, holding the lock, the with_gil closure runs to its end
\* (lib.rs:369-377) and poll returns.
PollWithGil(c) ==
    /\ pyfut[c].st = "locked"
    /\ gil = NativeTask(c)
    /\ PollReturns(c, Recv(chan[c]))
    /\ gil' = GilReleased(gil)
    /\ UNCHANGED <<registry, loopClosed, ready, awaitable, ensureFut, completer, task>>
    /\ UNCHANGED pyVars
    /\ UNCHANGED <<rtVars, tlVars, tokioVars>>

\* PyFuture::poll, called by the task awaiting the future until it is Ready
PyFuture_poll(c) == PollBegin(c) \/ PollWithGil(c)

\* The native side drops the PyFuture (and with it the receiver) unresolved.
DropFuture(c) ==
    /\ pyfut[c].st = "pending"
    /\ pyfut' = [pyfut EXCEPT ![c].st = "dropped"]
    /\ chan' = [chan EXCEPT ![c] = DropRx(@)]
    /\ UNCHANGED <<registry, loopClosed, ready, awaitable, ensureFut, completer, task>>
    /\ UNCHANGED pyVars
    /\ UNCHANGED <<rtVars, tlVars, gil, tokioVars>>

\* The callback objects of conversion c that sit in the loop's queue.
Queued(kind, c) ==
    \E i \in 1..Len(ready) : ready[i].kind = kind /\ ready[i].conv = c

\* try_close: executor shutdown, loop.stop(), loop.close().  Closing the loop
\* clears its queue, which releases every callback object still in it.
TryClose ==
    /\ "EXECUTOR" \in registry
    /\ ~loopClosed
    /\ loopClosed' = TRUE
    /\ ready' = <<>>
    /\ ensureFut' = [c \in Conv |->
                        IF Queued("ensure", c)
                        THEN [ensureFut[c] EXCEPT !.st = "released", !.tx = FALSE]
                        ELSE ensureFut[c]]
    /\ completer' = [c \in Conv |->
                        IF Queued("completer", c)
                        THEN [completer[c] EXCEPT !.st = "dropped", !.tx = FALSE]
                        ELSE completer[c]]
    /\ chan' = [c \in Conv |->
                   LET ch == IF Queued("ensure", c)
                             THEN DropObj(ensureFut[c], chan[c])
                             ELSE chan[c]
                   IN IF Queued("completer", c) THEN DropObj(completer[c], ch)
                      ELSE ch]
    /\ UNCHANGED <<registry, awaitable, task, pyfut>>
    /\ host' = HostClose(HostStop(HostShutdown(host)))
    /\ UNCHANGED pyVars
    /\ UNCHANGED <<cache, once, thr, tlVars, gil, tokioVars>>

\* After the loop is closed a pending host task is never run again; when the
\* host collects it, its done callback (the completer) is dropped with it.
TaskCollected(c) ==
    /\ loopClosed
    /\ task[c].st = "pending"
    /\ task' = [task EXCEPT ![c].st = "collected"]
    /\ completer' = [completer EXCEPT ![c].st = "dropped", ![c].tx = FALSE]
    /\ chan' = [chan EXCEPT ![c] = DropObj(completer[c], @)]
    /\ UNCHANGED <<registry, loopClosed, ready, awaitable, ensureFut, pyfut>>
    /\ UNCHANGED pyVars
    /\ UNCHANGED <<rtVars, tlVars, gil, tokioVars>>

Next ==
    \/ \E ok \in BOOLEAN : TryInit(ok)
    \/ \E c \in Conv, a \in Awaitables : PyFuture_try_from(c, a)
    \/ \E c \in Conv : PyEnsureFuture_call(c)
    \/ \E c \in Conv : TaskFinish(c)
    \/ \E c \in Conv : PyTaskCompleter_call(c)
    \/ \E c \in Conv : CompleterCalledAgain(c)
    \/ \E c \in Conv : PyFuture_poll(c)
    \/ \E c \in Conv : DropFuture(c)
    \/ TryClose
    \/ \E c \in Conv : TaskCollected(c)

Spec == Init /\ [][Next]_vars

\* The same, with a host that may invoke a PyEnsureFuture more than once.
NextAgain ==
    \/ Next
    \/ \E c \in Conv : EnsureCalledAgain(c)

SpecAgain == Init /\ [][NextAgain]_vars

\* Normal operation: the loop stays open and runs its queue, the host tasks
\* finish, and every future returned is awaited (polled until Ready).
NextAwaited ==
    \/ \E ok \in BOOLEAN : TryInit(ok)
    \/ \E c \in Conv, a \in Awaitables : PyFuture_try_from(c, a)
    \/ \E c \in Conv : PyEnsureFuture_call(c)
    \/ \E c \in Conv : TaskFinish(c)
    \/ \E c \in Conv : PyTaskCompleter_call(c)
    \/ \E c \in Conv : CompleterCalledAgain(c)
    \/ \E c \in Conv : PyFuture_poll(c)

\* The loop thread runs the callback at the head of its queue.
LoopRuns ==
    \E c \in Conv : PyEnsureFuture_call(c) \/ PyTaskCompleter_call(c)

\* The loop runs its queue, every host task finishes, and the native task
\* awaiting a future polls it.
FairAwaited ==
    /\ WF_vars(LoopRuns)
    /\ \A c \in Conv : WF_vars(TaskFinish(c))
    /\ \A c \in Conv : WF_vars(PyFuture_poll(c))

FairSpec == Init /\ [][NextAwaited]_vars /\ FairAwaited


-----------------------------------------------------------------------------
(* The awaitable -> native future conversion: properties *)

\* How many times the sender of conversion c has been consumed.
Consumed(c) == chan[c].sends + chan[c].failed + chan[c].drops

\* Every callback scheduled for conversion c has run and its host task, if
\* one was made, has finished (or was collected).
Settled(c) ==
    /\ ensureFut[c].st = "released"
    /\ ~Queued("completer", c)
    /\ task[c].st # "pending"

\* C1: a future that is Ready with a delivered payload carries exactly what
\* the awaitable's host task finished with, Ok(V) for a value V and Err(E)
\* for a raised exception E, the task is done by then, and the future has
\* become Ready exactly once.
C1_ResolvesToTaskOutcome ==
    \A c \in Conv :
        /\ pyfut[c].readies <= 1
        /\ pyfut[c].st = "ready" => pyfut[c].readies = 1
        /\ chan[c].data # None => chan[c].data = awaitable[c].out
        /\ (pyfut[c].st = "ready" /\ chan[c].sends > 0) =>
               /\ task[c].st = "done"
               /\ task[c].result = awaitable[c].out
               /\ pyfut[c].out = awaitable[c].out

C1_Witness ==
    /\ pyfut[1].st = "ready" /\ pyfut[1].out = Ok("v1")
    /\ awaitable[1].out = Ok("v1")
    /\ pyfut[2].st = "ready" /\ pyfut[2].out = Err("e1")
    /\ awaitable[2].out = Err("e1")

\* C2: the sender of a conversion is consumed at most once (a send or a
\* drop, never both), a future that is Ready has seen exactly one of them,
\* and once the loop has run the conversion's callbacks and its task has
\* finished the sender has been consumed exactly once.
C2_SenderConsumedOnce ==
    \A c \in Conv :
        /\ Consumed(c) <= 1
        /\ chan[c].data # None => chan[c].sends = 1
        /\ pyfut[c].st = "ready" => Consumed(c) = 1 /\ chan[c].failed = 0
        /\ (chan[c].made /\ Settled(c)) => Consumed(c) = 1

C2_Witness ==
    /\ Settled(1) /\ chan[1].sends = 1 /\ pyfut[1].st = "ready"
    /\ Settled(2) /\ chan[2].drops = 1 /\ pyfut[2].st = "ready"

\* C3: when the sender was dropped without sending, a poll of the pending
\* future returns Ready with CancelledError (it does not return Pending), and
\* a future that became Ready after the drop holds CancelledError, never Ok.
C3_DroppedSenderCancels ==
    \A c \in Conv :
        chan[c].drops > 0 =>
            /\ pyfut[c].st = "pending" =>
                   PollOutput(Recv(chan[c])) = <<"Ready", Err(CancelledError)>>
            /\ pyfut[c].st = "ready" => pyfut[c].out = Err(CancelledError)

C3_Witness ==
    \E c \in Conv :
        /\ chan[c].drops = 1
        /\ loopClosed
        /\ task[c].st = "collected"
        /\ pyfut[c].st = "ready"
        /\ pyfut[c].out = Err(CancelledError)

\* C4: when the receiver was dropped before the host task finished, the
\* completion callback that fires later returns Ok(()): the refused send is
\* ignored, nothing is stored in the channel and nothing reaches the dropped
\* future.
C4_SendAfterDropIgnored ==
    \A c \in Conv :
        chan[c].failed > 0 =>
            /\ completer[c].ret = "ok"
            /\ ~completer[c].tx
            /\ chan[c].failed = 1
            /\ chan[c].data = None
            /\ chan[c].sends = 0
            /\ pyfut[c].st = "dropped"
            /\ pyfut[c].out = None

C4_Witness ==
    \E c \in Conv :
        /\ chan[c].failed = 1
        /\ completer[c].st = "called"
        /\ completer[c].ret = "ok"
        /\ task[c].st = "done"
        /\ pyfut[c].st = "dropped"

\* C5: a second invocation of the completion callback of a conversion sends
\* nothing, leaves the channel and the future as they were, and returns
\* Ok(()).
C5_SecondCallNoOp ==
    [][\A c \in Conv :
          CompleterCalledAgain(c) =>
              /\ chan' = chan
              /\ pyfut' = pyfut
              /\ ~completer'[c].tx
              /\ completer'[c].ret = "ok"]_vars

C5_Witness ==
    \E c \in Conv :
        /\ completer[c].calls = 2
        /\ completer[c].ret = "ok"
        /\ chan[c].sends = 1
        /\ pyfut[c].st = "ready"
        /\ pyfut[c].out = awaitable[c].out

\* C6: while the loop keeps running its queue and the host tasks finish, a
\* future returned by into_future eventually becomes Ready; and a payload is
\* never in the channel or in the future before the host task has finished.
C6_EventuallyReady ==
    /\ \A c \in Conv : (pyfut[c].st = "pending") ~> (pyfut[c].st = "ready")
    /\ [](\A c \in Conv :
            (chan[c].sends > 0 \/ chan[c].data # None \/
             (pyfut[c].st = "ready" /\ pyfut[c].out # Err(CancelledError)))
                => task[c].st = "done")

C6_Witness ==
    \E c \in Conv :
        /\ awaitable[c].kind = "coro"
        /\ task[c].st = "done"
        /\ pyfut[c].st = "ready"
        /\ pyfut[c].out = Ok("v2")

\* C21: an invocation of a conversion's PyEnsureFuture after its first one is
\* a no-op: it makes no further host task of the awaitable, attaches no
\* further completion handler, puts nothing into the channel and does not
\* panic.
C21_SecondEnsureCallNoOp ==
    [][\A c \in Conv :
          (ensureFut[c].calls >= 1 /\ ensureFut'[c].calls > ensureFut[c].calls) =>
              /\ ensureFut'[c].wrapped = ensureFut[c].wrapped
              /\ ensureFut'[c].attached = ensureFut[c].attached
              /\ chan'[c].sends = chan[c].sends
              /\ chan'[c].data = chan[c].data
              /\ ensureFut'[c].ret # "panic"]_vars

\* C22: a future that became Ready after a foreign exception was raised in
\* its conversion holds that exception: the one the awaitable's task raised,
\* or the one ensure_future or add_done_callback raised inside
\* PyEnsureFuture; it holds no other error in its place.
C22_ExceptionsReachFuture ==
    \A c \in Conv :
        pyfut[c].st = "ready" =>
            /\ (task[c].st = "done" /\ task[c].result[1] = "Err") =>
                   pyfut[c].out = task[c].result
            /\ ensureFut[c].exc # "none" =>
                   pyfut[c].out = Err(ensureFut[c].exc)

-----------------------------------------------------------------------------
(* tokio.rs: the native future -> awaitable conversion *)

\* What a native future does when driven: completes with Ok(V) or Err(E), or
\* panics.
Panic == <<"Panic", "panic">>
NativeFutures == {Ok("v1"), Err("e1"), Panic}

\* The exception a panicked native task is translated into.
RustPanic == "RustPanic"

\* A spawn whose task never drives the future it was given.
SpawnWithoutFuture(fut) ==
    [st |-> "finished", will |-> fut, handle |-> TRUE, aborts |-> 0,
     joined |-> FALSE]

\* A spawn that returns the handle of another task than the one driving fut.
SpawnDetached(fut) ==
    [st |-> "running", will |-> fut, handle |-> FALSE, aborts |-> 0,
     joined |-> FALSE]

\* TokioRuntime::spawn: get_runtime().spawn(async move { fut.await; }).  The
\* task drives fut, and the JoinHandle returned is that task's.
Spawn(fut) ==
    [st |-> "running", will |-> fut, handle |-> TRUE, aborts |-> 0,
     joined |-> FALSE]

\* A classification that never reports a panic.
IsPanicNever(joinErr) == FALSE

\* impl generic::JoinError for task::JoinError: is_panic
IsPanic(joinErr) == joinErr = "panicked"

\* JoinHandle::abort on the handle spawn returned: a task still running is
\* cancelled at its next suspension point; a finished one is left alone.
Abort(t) ==
    [t EXCEPT !.aborts = @ + 1,
              !.st = IF t.st = "running" /\ t.handle THEN "aborted" ELSE @]

\* A host future runs its done callbacks (call_soon) when it is resolved.
ScheduleDone(queue, k, ph) ==
    IF ph.doneCb = "attached" THEN Append(queue, Callback("done_cb", k, None))
    ELSE queue

\* Resolving the pending host future on thread `by`.
Resolve(ph, st, val, by, cause) ==
    [ph EXCEPT !.st = st, !.val = val, !.by = by, !.cause = cause,
               !.doneCb = IF @ = "attached" THEN "queued" ELSE @,
               !.writes = @ + 1]

\* future_into_py_with_locals(py, locals, fut) and the entry points that
\* delegate to it: makes the placeholder, attaches its done callback, spawns
\* the native task and returns the placeholder.
FutureIntoPy(k, fut) ==
    /\ placeholder[k].st = "none"
    /\ placeholder' = [placeholder EXCEPT ![k] =
                          [NoPlaceholder EXCEPT !.st = "pending", !.doneCb = "attached"]]
    /\ native' = [native EXCEPT ![k] = Spawn(fut)]
    /\ UNCHANGED <<intoVars, loopVars>>
    /\ UNCHANGED <<rtVars, tlVars, gil, tokioVars>>

\* The spawned task: the inner future runs to its end.  A result or an error
\* is handed to the loop thread (thread-safe scheduling); a panic unwinds the
\* task.
NativeComplete(k) ==
    /\ native[k].st = "running"
    /\ IF native[k].will = Panic
       THEN /\ native' = [native EXCEPT ![k].st = "panicked"]
            /\ UNCHANGED ready
       ELSE /\ native' = [native EXCEPT ![k].st = "completed"]
            /\ ready' = CallSoon(ready, Callback("set", k, native[k].will))
    /\ UNCHANGED <<intoVars, loopClosed, placeholder>>
    /\ UNCHANGED <<rtVars, tlVars, gil, tokioVars>>

\* Joining the spawned task failed: a panic becomes a host exception, any
\* other join failure a cancellation of the placeholder.
JoinFailed(k) ==
    /\ native[k].st \in {"panicked", "aborted"}
    /\ ~native[k].joined
    /\ native' = [native EXCEPT ![k].joined = TRUE]
    /\ ready' = IF IsPanic(native[k].st)
                THEN CallSoon(ready, Callback("set", k, Err(RustPanic)))
                ELSE CallSoon(ready, Callback("cancel", k, None))
    /\ UNCHANGED <<intoVars, loopClosed, placeholder>>
    /\ UNCHANGED <<rtVars, tlVars, gil, tokioVars>>

\* Host code cancels the placeholder (asyncio.Future.cancel, on the loop
\* thread).
HostCancel(k) ==
    /\ placeholder[k].st = "pending"
    /\ placeholder' = [placeholder EXCEPT ![k] =
                          Resolve(@, "cancelled", None, "loop", "host")]
    /\ ready' = ScheduleDone(ready, k, placeholder[k])
    /\ UNCHANGED <<intoVars, loopClosed, native>>
    /\ UNCHANGED <<rtVars, tlVars, gil, tokioVars>>

\* A completion that sets a result whatever the native future gave.
CompletionAlwaysResult(res) == "result"

\* The placeholder method the completion callback calls: set_result for
\* Ok, set_exception for Err.
Completion(res) == IF res[1] = "Ok" THEN "result" ELSE "exception"

\* A callback that calls set_result / set_exception whatever the state of
\* the placeholder: the host future refuses a second resolution by raising
\* InvalidStateError in the callback.
SetUnchecked(ph, how, val) ==
    IF ph.st = "pending" THEN Resolve(ph, how, val, "loop", "callback")
    ELSE [ph EXCEPT !.faults = @ + 1]

\* What the set callback does to the placeholder: a pending placeholder is
\* resolved, one already resolved (a late delivery) is left as it is.
SetChecked(ph, how, val) ==
    IF ph.st = "pending" THEN Resolve(ph, how, val, "loop", "callback")
    ELSE ph

\* The loop runs the callback that sets the placeholder's result or
\* exception; a placeholder already resolved is left as it is.
RunSet(k) ==
    /\ AtHead("set", k)
    /\ LET res == Head(ready).val
           q == Tail(ready)
       IN /\ placeholder' = [placeholder EXCEPT ![k] =
                                SetChecked(@, Completion(res), res[2])]
          /\ ready' = IF placeholder[k].st = "pending"
                      THEN ScheduleDone(q, k, placeholder[k])
                      ELSE q
    /\ UNCHANGED <<intoVars, loopClosed, native>>
    /\ UNCHANGED <<rtVars, tlVars, gil, tokioVars>>

\* The loop runs the callback that cancels the placeholder if not done.
RunCancel(k) ==
    /\ AtHead("cancel", k)
    /\ IF placeholder[k].st = "pending"
       THEN /\ placeholder' = [placeholder EXCEPT ![k] =
                  Resolve(@, "cancelled", None, "loop", "callback")]
            /\ ready' = ScheduleDone(Tail(ready), k, placeholder[k])
       ELSE /\ ready' = Tail(ready)
            /\ UNCHANGED placeholder
    /\ UNCHANGED <<intoVars, loopClosed, native>>
    /\ UNCHANGED <<rtVars, tlVars, gil, tokioVars>>

\* The loop runs the placeholder's done callback: a cancelled placeholder
\* aborts the native task's join handle.
RunDoneCallback(k) ==
    /\ AtHead("done_cb", k)
    /\ ready' = Tail(ready)
    /\ placeholder' = [placeholder EXCEPT ![k].doneCb = "ran"]
    /\ native' = [native EXCEPT ![k] =
                     IF placeholder[k].st = "cancelled" THEN Abort(@) ELSE @]
    /\ UNCHANGED <<intoVars, loopClosed>>
    /\ UNCHANGED <<rtVars, tlVars, gil, tokioVars>>

NextPy ==
    \/ \E k \in PyConv, f \in NativeFutures : FutureIntoPy(k, f)
    \/ \E k \in PyConv : NativeComplete(k)
    \/ \E k \in PyConv : JoinFailed(k)
    \/ \E k \in PyConv : HostCancel(k)
    \/ \E k \in PyConv : RunSet(k)
    \/ \E k \in PyConv : RunCancel(k)
    \/ \E k \in PyConv : RunDoneCallback(k)

SpecPy == Init /\ [][NextPy]_vars

\* The loop thread runs the callback at the head of its queue.
LoopRunsPy ==
    \E k \in PyConv : RunSet(k) \/ RunCancel(k) \/ RunDoneCallback(k)

\* The native scheduler runs the task of conversion k, then its join.
NativeRuns(k) == NativeComplete(k) \/ JoinFailed(k)

\* The loop runs its queue and the native scheduler runs its tasks.
FairPy ==
    /\ WF_vars(LoopRunsPy)
    /\ \A k \in PyConv : WF_vars(NativeRuns(k))

FairSpecPy == SpecPy /\ FairPy


-----------------------------------------------------------------------------
(* The native future -> awaitable conversion: properties *)

\* The native future of a conversion is fixed when the conversion starts and a
\* resolved placeholder is never written again, so "eventually" is stated
\* below as: from some point on, every conversion made has the outcome.

\* The host itself cancelled the placeholder of conversion k.
HostCancelled(k) == placeholder[k].cause = "host"

C8_CancelAbortsNative ==
    /\ <>[](\A k \in PyConv : HostCancelled(k) => native[k].aborts > 0)
    /\ [](\A k \in PyConv : native[k].aborts > 0 =>
            /\ HostCancelled(k)
            /\ native[k].st # "running")
    /\ [][\A k \in PyConv :
            (native[k].aborts > 0 /\ native[k].st # "completed") =>
                native'[k].st # "completed"]_vars

C8_Witness ==
    \E k \in PyConv :
        /\ HostCancelled(k)
        /\ native[k].will = Ok("v1")
        /\ native[k].aborts = 1
        /\ native[k].st = "aborted"
        /\ native[k].joined

-----------------------------------------------------------------------------
(* lib.rs: the registry's calls, thread by thread *)

\* A call record with one more event in the log of the call in progress.
Log(c, what, r) == [c EXCEPT !.log = Append(@, <<what, r>>)]

\* The call in progress returns r (or unwinds, r = Panic) to the thread.
Returned(c, r) == [c EXCEPT !.pc = "done", !.ret = r]

\* The calls made so far by the threads 1..n.
RECURSIVE CallsUpTo(_)
CallsUpTo(n) == IF n = 0 THEN 0 ELSE thr[n].calls + CallsUpTo(n - 1)

\* Thread t is between calls and makes one more: the record of the new call.
\* The calls made so far: the threads' registry calls and the into_future
\* conversions begun.
TotalCalls ==
    CallsUpTo(NThreads) + Cardinality({c \in Conv : pyfut[c].st # "none"})

CanCall(t) ==
    /\ thr[t].pc \in {"none", "done"}
    /\ TotalCalls < MaxCalls
NewCall(t, op) ==
    [NoCall EXCEPT !.op = op, !.calls = thr[t].calls + 1]

\* A get_or_try_init that runs the closure although the cell is set.
GetOrTryInitAgain(cell, running) ==
    IF running # 0 THEN "wait" ELSE "init"

\* A get_or_try_init that does not wait for a running initializer.
GetOrTryInitRacy(cell, running) ==
    IF cell # 0 THEN "get" ELSE "init"

\* OnceCell::get_or_try_init on EVENT_LOOP (lib.rs:209): the cached value if
\* the cell is set; else wait while another thread runs its closure; else run
\* the closure.
GetOrTryInit(cell, running) ==
    IF cell # 0 THEN "get"
    ELSE IF running # 0 THEN "wait"
    ELSE "init"

\* OnceCell::get_or_init / the store of get_or_try_init (lib.rs:222-227): a
\* cell that is set keeps its value.
Store(cells, new) ==
    [c \in Cells |-> IF cells[c] # 0 THEN cells[c] ELSE new[c]]

\* with_runtime's use of try_init's result, `try_init(py)?` (lib.rs:194):
\* an error is returned, otherwise the closure is next.  A bare try_init
\* returns the result (lib.rs:229).
AfterInit(c, r) ==
    IF c.op = "with_runtime" /\ r = Ok(Unit)
    THEN [Log(c, "try_init", r) EXCEPT !.pc = "closure"]
    ELSE Returned(Log(c, "try_init", r), r)

\* The entry of get_or_try_init for the call c of thread t.
InitStep(t, c) ==
    LET how == GetOrTryInit(cache["EVENT_LOOP"], once)
    IN /\ thr' = [thr EXCEPT ![t] =
                     CASE how = "get" -> AfterInit(c, Ok(Unit))
                       [] how = "wait" -> [c EXCEPT !.pc = "init_wait"]
                       [] OTHER -> [c EXCEPT !.pc = "init_import"]]
       /\ once' = IF how = "init" THEN t ELSE once
       /\ UNCHANGED <<registry, cache, host, loopClosed>>

\* try_init(py)
TryInitCall(t) ==
    /\ CanCall(t)
    /\ InitStep(t, NewCall(t, "try_init"))
    /\ UNCHANGED <<ready, awaitable, ensureFut, completer, task, chan, pyfut>>
    /\ UNCHANGED <<pyVars, tlVars, gil, tokioVars>>

\* with_runtime(py, f), up to its try_init
WithRuntimeCall(t) ==
    /\ CanCall(t)
    /\ InitStep(t, NewCall(t, "with_runtime"))
    /\ UNCHANGED <<ready, awaitable, ensureFut, completer, task, chan, pyfut>>
    /\ UNCHANGED <<pyVars, tlVars, gil, tokioVars>>

\* A thread waiting in get_or_try_init is woken when the running initializer
\* has finished, and looks at the cell again.
InitWake(t) ==
    /\ thr[t].pc = "init_wait"
    /\ once = 0
    /\ InitStep(t, thr[t])
    /\ UNCHANGED <<ready, awaitable, ensureFut, completer, task, chan, pyfut>>
    /\ UNCHANGED <<pyVars, tlVars, gil, tokioVars>>

\* A closure that stores the module and its ensure_future as soon as it has
\* them.
ImportStoresEarly(t) ==
    [c \in Cells |-> IF c \in {"ASYNCIO", "ENSURE_FUTURE"} THEN 1 ELSE 0]

\* What the closure's first part stores in the cells (lib.rs:210-216):
\* nothing, the handles are kept in locals.
ImportStores(t) == EmptyCache

\* The closure's first part (lib.rs:210-216): import asyncio, take its
\* ensure_future, ask for the thread's loop, make the executor.  A host call
\* that raises ends the closure: nothing is stored and the cell is free again.
InitImport(t, ok) ==
    /\ thr[t].pc = "init_import"
    /\ IF ok
       THEN /\ host' = MakeExecutor(host)
            /\ thr' = [thr EXCEPT ![t].pc = "init_install",
                                  ![t].exec = host'.executors]
            /\ cache' = Store(cache, ImportStores(t))
            /\ UNCHANGED once
       ELSE /\ thr' = [thr EXCEPT ![t] = AfterInit(@, Err("e1"))]
            /\ once' = 0
            /\ UNCHANGED <<host, cache>>
    /\ registry' = Populated(cache')
    /\ UNCHANGED loopClosed
    /\ UNCHANGED <<ready, awaitable, ensureFut, completer, task, chan, pyfut>>
    /\ UNCHANGED <<pyVars, tlVars, gil, tokioVars>>

\* What the closure's second part can do: run through, or raise in
\* set_default_executor, or raise in a getattr after the executor is installed.
InstallOutcomes == {"ok", "install_raises", "getattr_raises"}

\* A closure that stores no executor.
ClosureStoresNoExecutor(t, exec) ==
    [Populate(t, exec) EXCEPT !["EVENT_LOOP"] = 0, !["EXECUTOR"] = 0]

\* The five get_or_init calls at the end of the closure (lib.rs:222-226):
\* every cell but EVENT_LOOP gets its handle.
ClosureStores(t, exec) == [Populate(t, exec) EXCEPT !["EVENT_LOOP"] = 0]

\* The closure's value, Ok(event_loop.into()) (lib.rs:227), as
\* get_or_try_init stores it in EVENT_LOOP once the closure has returned.
LoopStore(t, exec) ==
    [c \in Cells |-> IF c = "EVENT_LOOP" THEN Populate(t, exec)[c] ELSE 0]

\* The closure's second part (lib.rs:217-226): install the executor, take the
\* loop's two methods, then store every handle but the loop's.  A host call
\* that raises ends the closure before the first store.
InitInstall(t, out) ==
    /\ thr[t].pc = "init_install"
    /\ IF out = "ok"
       THEN /\ cache' = Store(cache, ClosureStores(t, thr[t].exec))
            /\ host' = InstallExecutor(host, thr[t].exec)
            /\ thr' = [thr EXCEPT ![t].pc = "init_store"]
            /\ UNCHANGED once
       ELSE /\ host' = IF out = "getattr_raises"
                       THEN InstallExecutor(host, thr[t].exec) ELSE host
            /\ thr' = [thr EXCEPT ![t] = AfterInit(@, Err("e1"))]
            /\ once' = 0
            /\ UNCHANGED cache
    /\ registry' = Populated(cache')
    /\ UNCHANGED loopClosed
    /\ UNCHANGED <<ready, awaitable, ensureFut, completer, task, chan, pyfut>>
    /\ UNCHANGED <<pyVars, tlVars, gil, tokioVars>>

\* The closure has returned Ok(event_loop) (lib.rs:227): get_or_try_init
\* stores the loop in EVENT_LOOP, the initialization is over and try_init
\* returns Ok(()) (lib.rs:228-230).
InitStore(t) ==
    /\ thr[t].pc = "init_store"
    /\ once' = 0
    /\ cache' = Store(cache, LoopStore(t, thr[t].exec))
    /\ host' = [host EXCEPT !.populations = @ + 1]
    /\ thr' = [thr EXCEPT ![t] = AfterInit(@, Ok(Unit))]
    /\ registry' = Populated(cache')
    /\ UNCHANGED loopClosed
    /\ UNCHANGED <<ready, awaitable, ensureFut, completer, task, chan, pyfut>>
    /\ UNCHANGED <<pyVars, tlVars, gil, tokioVars>>

\* A reference to the host object h, as an accessor returns it.
Handle(h) == <<"Handle", h>>

\* A get_event_loop that asks the host for the calling thread's loop.
GetEventLoopOfCaller(cells, t) == Handle(HostLoopOf(t))

\* get_event_loop(py): EVENT_LOOP.get().expect(EXPECT_INIT), lib.rs:233-235
GetEventLoop(cells, t) ==
    IF cells["EVENT_LOOP"] = 0 THEN Panic ELSE Handle(cells["EVENT_LOOP"])

\* A call of get_event_loop by thread t.
GetEventLoopCall(t) ==
    /\ CanCall(t)
    /\ LET r == GetEventLoop(cache, t)
       IN thr' = [thr EXCEPT ![t] =
                     Returned(Log(NewCall(t, "get_event_loop"), "get_event_loop", r), r)]
    /\ UNCHANGED <<registry, cache, host, once, loopClosed>>
    /\ UNCHANGED <<ready, awaitable, ensureFut, completer, task, chan, pyfut>>
    /\ UNCHANGED <<pyVars, tlVars, gil, tokioVars>>

\* The user closure of with_runtime, `(f)()?` (lib.rs:196), returns r: an
\* error is with_runtime's result, otherwise try_close is next.
AfterClosureAlwaysCloses(c, r) ==
    [Log(c, "closure", r) EXCEPT !.pc = "close_shutdown", !.result = r]

AfterClosure(c, r) ==
    IF r[1] = "Err" THEN Returned(Log(c, "closure", r), r)
    ELSE [Log(c, "closure", r) EXCEPT !.pc = "close_shutdown", !.result = r]

Closure(t, r) ==
    /\ thr[t].pc = "closure"
    /\ thr' = [thr EXCEPT ![t] = AfterClosure(@, r)]
    /\ UNCHANGED <<registry, cache, host, once, loopClosed>>
    /\ UNCHANGED <<ready, awaitable, ensureFut, completer, task, chan, pyfut>>
    /\ UNCHANGED <<pyVars, tlVars, gil, tokioVars>>

\* A try_close that closes the loop before it stops it.
NextCloseStepCloseFirst(step) ==
    CASE step = "close_shutdown" -> "close_close"
      [] step = "close_close" -> "close_stop"
      [] OTHER -> "return"

\* The statements of try_close in program order (lib.rs:298-305): executor
\* shutdown, loop stop, loop close, return.
NextCloseStep(step) ==
    CASE step = "close_shutdown" -> "close_stop"
      [] step = "close_stop" -> "close_close"
      [] OTHER -> "return"

\* The cell a step of try_close reads with get().expect(EXPECT_INIT).
CellOf(step) == IF step = "close_shutdown" THEN "EXECUTOR" ELSE "EVENT_LOOP"

\* The host after the step's call went through.
HostAfter(h, step) ==
    CASE step = "close_shutdown" -> HostShutdown(h)
      [] step = "close_stop" -> HostStop(h)
      [] OTHER -> HostClose(h)

\* try_close is over with result r: a bare try_close returns it; with_runtime
\* returns an error as it is, `try_close(py)?`, and otherwise the closure's
\* value, Ok(result) (lib.rs:198-200).
AfterClose(c, r) ==
    IF c.op = "with_runtime" /\ r = Ok(Unit) THEN Returned(c, c.result)
    ELSE Returned(c, r)

\* A step that carries on with the next call after the host raised.
AfterCloseStepIgnoresError(c, r) ==
    LET next == NextCloseStep(c.pc)
        logged == Log(c, c.pc, r)
    IN IF next = "return" THEN AfterClose(logged, Ok(Unit))
       ELSE [logged EXCEPT !.pc = next]

\* The `?` after each call of try_close: a raised error ends try_close with
\* that error; otherwise the next statement runs.
AfterCloseStep(c, r) ==
    LET next == NextCloseStep(c.pc)
        logged == Log(c, c.pc, r)
    IN IF r[1] = "Err" THEN AfterClose(logged, r)
       ELSE IF next = "return" THEN AfterClose(logged, Ok(Unit))
       ELSE [logged EXCEPT !.pc = next]

\* try_close(py)
TryCloseCall(t) ==
    /\ CanCall(t)
    /\ thr' = [thr EXCEPT ![t] =
                  [NewCall(t, "try_close") EXCEPT !.pc = "close_shutdown"]]
    /\ UNCHANGED <<registry, cache, host, once, loopClosed>>
    /\ UNCHANGED <<ready, awaitable, ensureFut, completer, task, chan, pyfut>>
    /\ UNCHANGED <<pyVars, tlVars, gil, tokioVars>>

\* A read that moves the handle out of the cell.
AfterTake(cells, cell) == [cells EXCEPT ![cell] = 0]

\* The cells after OnceCell::get() on one of them (lib.rs:297-299,
\* lib.rs:234): get() hands out a reference and the cell keeps its handle.
AfterGet(cells, cell) == cells

\* One statement of try_close: the cell is read (a panic if it is empty), the
\* host call is made and either goes through or raises.
CloseStep(t, ok) ==
    /\ thr[t].pc \in {"close_shutdown", "close_stop", "close_close"}
    /\ LET c == thr[t]
       IN IF cache[CellOf(c.pc)] = 0
          THEN /\ thr' = [thr EXCEPT ![t] = Returned(Log(c, c.pc, Panic), Panic)]
               /\ UNCHANGED <<host, loopClosed>>
          ELSE IF ok
          THEN /\ thr' = [thr EXCEPT ![t] = AfterCloseStep(c, Ok(Unit))]
               /\ host' = HostAfter(host, c.pc)
               /\ loopClosed' = (loopClosed \/ c.pc = "close_close")
          ELSE /\ thr' = [thr EXCEPT ![t] = AfterCloseStep(c, Err("e1"))]
               /\ UNCHANGED <<host, loopClosed>>
    /\ cache' = AfterGet(cache, CellOf(thr[t].pc))
    /\ registry' = Populated(cache')
    /\ UNCHANGED once
    /\ UNCHANGED <<ready, awaitable, ensureFut, completer, task, chan, pyfut>>
    /\ UNCHANGED <<pyVars, tlVars, gil, tokioVars>>

\* How driving the loop can end: stop() was called, or run_forever raised.
KeyboardInterrupt == "KeyboardInterrupt"
LoopOutcomes == {"stopped", KeyboardInterrupt, "e1"}

\* A run_forever that returns every raised exception.
RunForeverResultStrict(out) ==
    IF out = "stopped" THEN Ok(Unit) ELSE Err(out)

\* run_forever's result (lib.rs:284-292): Ok(()) when the host call returned
\* or raised KeyboardInterrupt, the raised error otherwise.
RunForeverResult(out) ==
    IF out = "stopped" THEN Ok(Unit)
    ELSE IF out = KeyboardInterrupt THEN Ok(Unit)
    ELSE Err(out)

\* run_forever(py), up to the host call: get_event_loop panics on an empty
\* cell.
RunForeverCall(t) ==
    /\ CanCall(t)
    /\ LET c == NewCall(t, "run_forever")
       IN thr' = [thr EXCEPT ![t] =
                     IF GetEventLoop(cache, t)[1] = "Panic"
                     THEN Returned(Log(c, "run_forever", Panic), Panic)
                     ELSE [c EXCEPT !.pc = "driving"]]
    /\ UNCHANGED <<registry, cache, host, once, loopClosed>>
    /\ UNCHANGED <<ready, awaitable, ensureFut, completer, task, chan, pyfut>>
    /\ UNCHANGED <<pyVars, tlVars, gil, tokioVars>>

\* The host's run_forever returns or raises.
RunForeverReturn(t, out) ==
    /\ thr[t].pc = "driving"
    /\ thr' = [thr EXCEPT ![t] =
                  Returned(Log(@, "run_forever", out), RunForeverResult(out))]
    /\ UNCHANGED <<registry, cache, host, once, loopClosed>>
    /\ UNCHANGED <<ready, awaitable, ensureFut, completer, task, chan, pyfut>>
    /\ UNCHANGED <<pyVars, tlVars, gil, tokioVars>>

NextRt ==
    \/ \E t \in Threads : TryInitCall(t)
    \/ \E t \in Threads : WithRuntimeCall(t)
    \/ \E t \in Threads : InitWake(t)
    \/ \E t \in Threads, ok \in BOOLEAN : InitImport(t, ok)
    \/ \E t \in Threads, out \in InstallOutcomes : InitInstall(t, out)
    \/ \E t \in Threads : InitStore(t)
    \/ \E t \in Threads : GetEventLoopCall(t)
    \/ \E t \in Threads, r \in {Ok("v1"), Err("e1")} : Closure(t, r)
    \/ \E t \in Threads : TryCloseCall(t)
    \/ \E t \in Threads, ok \in BOOLEAN : CloseStep(t, ok)
    \/ \E t \in Threads : RunForeverCall(t)
    \/ \E t \in Threads, out \in LoopOutcomes : RunForeverReturn(t, out)

SpecRt == Init /\ [][NextRt]_vars

\* into_future(awaitable), lib.rs:448-450, as one of the calls made.
IntoFutureCall(c, a) ==
    /\ TotalCalls < MaxCalls
    /\ PyFuture_try_from(c, a)

\* The registry's accessors and PyFuture::try_from, called in any state of
\* the registry: before a try_init, or after one that went through.
NextAccess ==
    \/ \E ok \in BOOLEAN : TryInit(ok)
    \/ \E t \in Threads : GetEventLoopCall(t)
    \/ \E t \in Threads : TryCloseCall(t)
    \/ \E t \in Threads, ok \in BOOLEAN : CloseStep(t, ok)
    \/ \E t \in Threads : RunForeverCall(t)
    \/ \E t \in Threads, out \in LoopOutcomes : RunForeverReturn(t, out)
    \/ \E c \in Conv, a \in Awaitables : IntoFutureCall(c, a)

SpecAccess == Init /\ [][NextAccess]_vars

-----------------------------------------------------------------------------
(* lib.rs: try_init called by threads that hold the interpreter lock *)

\* A thread that is in no call takes the interpreter lock (Python::with_gil)
\* to make one.
TakeGil(t) ==
    /\ gil = Free
    /\ CanCall(t)
    /\ gil' = Caller(t)
    /\ UNCHANGED <<intoVars, loopVars, pyVars, rtVars, tlVars, tokioVars>>

\* The thread's call has returned (or it made none) and its token goes out
\* of scope: the lock is free again.
ReleaseGil(t) ==
    /\ gil = Caller(t)
    /\ thr[t].pc \in {"none", "done"}
    /\ gil' = Free
    /\ UNCHANGED <<intoVars, loopVars, pyVars, rtVars, tlVars, tokioVars>>

\* Where a thread in try_init can lose the interpreter lock: in the
\* closure's imports, lookups and calls (lib.rs:210-219) the host switches
\* threads while it runs host code.  A thread blocked in get_or_try_init
\* runs no host code and keeps the lock.
CanYield(t) == thr[t].pc \in {"init_import", "init_install"}

\* The interpreter hands the lock to other threads in the middle of the host
\* code thread t runs.
HostYield(t) ==
    /\ gil = Caller(t)
    /\ CanYield(t)
    /\ gil' = Free
    /\ UNCHANGED <<intoVars, loopVars, pyVars, rtVars, tlVars, tokioVars>>

\* ... and thread t gets it back before its host code goes on.
HostResume(t) ==
    /\ gil = Free
    /\ CanYield(t)
    /\ gil' = Caller(t)
    /\ UNCHANGED <<intoVars, loopVars, pyVars, rtVars, tlVars, tokioVars>>

\* A step of try_init(py) by thread t, which holds the lock: the call, the
\* wake-up of a waiter, or a part of the closure.
LockedInitStep(t) ==
    /\ gil = Caller(t)
    /\ \/ TryInitCall(t)
       \/ InitWake(t)
       \/ \E ok \in BOOLEAN : InitImport(t, ok)
       \/ \E out \in InstallOutcomes : InitInstall(t, out)
       \/ InitStore(t)

NextGil ==
    \/ \E t \in Threads : TakeGil(t)
    \/ \E t \in Threads : ReleaseGil(t)
    \/ \E t \in Threads : HostYield(t)
    \/ \E t \in Threads : HostResume(t)
    \/ \E t \in Threads : LockedInitStep(t)

SpecGil == Init /\ [][NextGil]_vars

\* A thread that can run does run: one that holds the lock takes its next
\* step and gives the lock back after its call, and one that waits for the
\* lock gets it when it is free again and again.
FairSpecGil ==
    /\ SpecGil
    /\ \A t \in Threads :
           /\ SF_vars(LockedInitStep(t) /\ thr[t].pc # "none" /\ thr[t].pc # "done")
           /\ SF_vars(HostResume(t))
           /\ WF_vars(ReleaseGil(t))

-----------------------------------------------------------------------------
(* The registry: properties *)

\* Thread t's last call was a plain try_init and it has returned.
InitReturned(t) == thr[t].op = "try_init" /\ thr[t].pc = "done"

\* C13: a try_init called when an earlier try_init has gone through (the
\* loop cell is set) returns Ok(()) at once and changes nothing: no closure
\* is started, no executor is made or installed, and every cached handle and
\* the host's loop and executor are as before.
C13_SecondInitNoOp ==
    [][\A t \in Threads :
          (TryInitCall(t) /\ cache["EVENT_LOOP"] # 0) =>
              /\ thr'[t].pc = "done"
              /\ thr'[t].ret = Ok(Unit)
              /\ thr'[t].exec = 0
              /\ UNCHANGED <<cache, registry, host, once, loopClosed>>]_vars

\* A try_init that returned Ok without running the closure, after the one
\* run that made the only executor.
C13_Witness ==
    \E t \in Threads :
        /\ InitReturned(t)
        /\ thr[t].ret = Ok(Unit)
        /\ thr[t].exec = 0
        /\ host.executors = 1
        /\ host.installs = 1

\* C14: however the try_init calls of the threads interleave, the closure
\* runs to its end at most once and the registry is stored once: the loop
\* cell is set exactly when one run went through, at most one thread is in
\* the closure, a try_init that returned Ok leaves the cell set, a handle once
\* cached is never replaced, and every get_event_loop that follows returns
\* the cached handle, the same for every thread.
C14_OneInitialization ==
    /\ [](/\ host.populations <= 1
          /\ (host.populations = 1) = (cache["EVENT_LOOP"] # 0)
          /\ Cardinality({t \in Threads :
                 thr[t].pc \in {"init_import", "init_install", "init_store"}})
                 <= 1
          /\ \A t \in Threads :
                 (InitReturned(t) /\ thr[t].ret = Ok(Unit)) =>
                     cache["EVENT_LOOP"] # 0
          /\ \A t, u \in Threads :
                 (/\ thr[t].op = "get_event_loop" /\ thr[t].ret[1] = "Handle"
                  /\ thr[u].op = "get_event_loop" /\ thr[u].ret[1] = "Handle") =>
                     /\ thr[t].ret = thr[u].ret
                     /\ thr[t].ret = Handle(cache["EVENT_LOOP"]))
    /\ [][\A c \in Cells : cache[c] # 0 => cache'[c] = cache[c]]_vars

\* Two threads were in try_init at the same time (one waited for the other's
\* closure), both returned Ok, and the closure ran to its end once.
C14_Witness ==
    \E t, u \in Threads :
        /\ t # u
        /\ InitReturned(t) /\ thr[t].ret = Ok(Unit) /\ thr[t].exec # 0
        /\ InitReturned(u) /\ thr[u].ret = Ok(Unit) /\ thr[u].exec = 0
        /\ host.populations = 1

\* The statements of try_close a call has made, in the order it made them.
IsCloseEvent(e) == e[1] \in {"close_shutdown", "close_stop", "close_close"}
CloseLog(c) == SelectSeq(c.log, IsCloseEvent)

\* C15: in every with_runtime call the closure is invoked exactly when
\* try_init returned Ok, and try_close is begun exactly when the closure
\* returned Ok; a try_init error or a closure error is with_runtime's result
\* as it is, and after a closure error the call makes no shutdown, stop or
\* close (the loop and the executor are left as they were).
C15_WithRuntimeSteps ==
    \A t \in Threads :
        thr[t].op = "with_runtime" =>
            LET L == thr[t].log
                done == thr[t].pc = "done"
            IN /\ Len(L) >= 1 => L[1][1] = "try_init"
               /\ Len(L) >= 2 => L[1][2] = Ok(Unit) /\ L[2][1] = "closure"
               /\ Len(L) >= 3 => L[2][2][1] = "Ok" /\ IsCloseEvent(L[3])
               /\ thr[t].pc = "closure" => Len(L) = 1 /\ L[1][2] = Ok(Unit)
               /\ IsCloseEvent(<<thr[t].pc>>) => Len(L) >= 2 /\ L[2][2][1] = "Ok"
               /\ (done /\ Len(L) = 1) => L[1][2][1] = "Err" /\ thr[t].ret = L[1][2]
               /\ (done /\ Len(L) = 2) => L[2][2][1] = "Err" /\ thr[t].ret = L[2][2]
               /\ (done /\ Len(L) >= 2 /\ L[2][2][1] = "Err") => CloseLog(thr[t]) = <<>>

\* A with_runtime whose closure failed: the error came back and the call
\* closed nothing.
C15_Witness ==
    \E t \in Threads :
        /\ thr[t].op = "with_runtime" /\ thr[t].pc = "done"
        /\ thr[t].log = <<<<"try_init", Ok(Unit)>>, <<"closure", Err("e1")>>>>
        /\ thr[t].ret = Err("e1")
        /\ host.shutdowns = 0 /\ host.stops = 0 /\ ~loopClosed

\* C16: while no cell of the registry is set, get_event_loop, try_close,
\* run_forever and PyFuture::try_from (into_future) each end in the
\* not-initialized panic, none of them returns a value or an error, and the
\* registry is still empty afterwards.
C16_AccessorsPanicUninitialized ==
    [][cache = EmptyCache =>
          /\ \A t \in Threads :
                 (GetEventLoopCall(t) \/ RunForeverCall(t)) =>
                     thr'[t].pc = "done" /\ thr'[t].ret = Panic
          /\ \A t \in Threads :
                 (CloseStep(t, TRUE) \/ CloseStep(t, FALSE)) =>
                     thr'[t].pc = "done" /\ thr'[t].ret = Panic
          /\ \A c \in Conv :
                 (\E a \in Awaitables : IntoFutureCall(c, a)) =>
                     pyfut'[c].st = "panic"
          /\ (\A ok \in BOOLEAN : ~TryInit(ok)) =>
                 cache' = EmptyCache /\ registry' = {}]_vars

\* With the registry empty, a thread's accessor call and a conversion have
\* panicked.
C16_Witness ==
    /\ cache = EmptyCache
    /\ \E t \in Threads : thr[t].op = "try_close" /\ thr[t].ret = Panic
    /\ \E c \in Conv : pyfut[c].st = "panic"

\* try_close's statements in the order the claim gives them.
CloseOrder == <<"close_shutdown", "close_stop", "close_close">>

\* C17: the statements a try_close call (a bare one, or with_runtime's) has
\* made are an initial part of: executor shutdown, loop stop, loop close, in
\* that order; only the last statement made can have raised, and a call in
\* which a statement raised made no further statement and returned that
\* error; a call that returned Ok made all three.
C17_CloseOrder ==
    \A t \in Threads :
        LET C == CloseLog(thr[t])
            done == thr[t].pc = "done"
        IN /\ Len(C) <= 3
           /\ \A i \in 1..Len(C) :
                  /\ C[i][1] = CloseOrder[i]
                  /\ i < Len(C) => C[i][2] = Ok(Unit)
           /\ (Len(C) > 0 /\ C[Len(C)][2][1] = "Err") =>
                  done /\ thr[t].ret = C[Len(C)][2]
           /\ (done /\ Len(C) > 0 /\ thr[t].ret[1] = "Ok") =>
                  Len(C) = 3 /\ C[3][2] = Ok(Unit)
           /\ (thr[t].op = "try_close" /\ done /\ thr[t].ret[1] = "Ok") =>
                  Len(C) = 3

\* A try_close whose loop stop raised: the executor was shut down first, the
\* loop was not closed, and the error came back.
C17_Witness ==
    \E t \in Threads :
        /\ thr[t].op = "try_close" /\ thr[t].pc = "done"
        /\ CloseLog(thr[t]) =
               <<<<"close_shutdown", Ok(Unit)>>, <<"close_stop", Err("e1")>>>>
        /\ thr[t].ret = Err("e1")
        /\ host.shutdowns = 1 /\ host.closes = 0

\* C18: a run_forever that reached the host call returns Ok(()) when the
\* loop was stopped or KeyboardInterrupt was raised, and Err(E) with the same
\* E for any other raised exception E.
C18_RunForeverResult ==
    \A t \in Threads :
        (/\ thr[t].op = "run_forever" /\ thr[t].pc = "done"
         /\ thr[t].ret[1] # "Panic") =>
            LET out == thr[t].log[1][2]
            IN /\ out \in {"stopped", KeyboardInterrupt} => thr[t].ret = Ok(Unit)
               /\ out \notin {"stopped", KeyboardInterrupt} => thr[t].ret = Err(out)

\* A run_forever ended by KeyboardInterrupt returned Ok(()).
C18_Witness ==
    \E t \in Threads :
        /\ thr[t].op = "run_forever" /\ thr[t].pc = "done"
        /\ thr[t].log = <<<<"run_forever", KeyboardInterrupt>>>>
        /\ thr[t].ret = Ok(Unit)

-----------------------------------------------------------------------------
(* tokio.rs: task-locals, scope, spawn_local, run *)

\* A TaskLocals value: an event loop and a context.
TaskLocals(loop, ctx) == <<loop, ctx>>
Locals == {TaskLocals("loop1", "ctx1"), TaskLocals("loop2", "ctx2")}

\* A scope that installs a cell nobody has set.
NewCellEmpty(locals) == <<"Cell", None>>

\* UnsyncOnceCell::new() then cell.set(locals).unwrap(), tokio.rs:72-73 and
\* tokio.rs:101-102: the value scope hands to TASK_LOCALS.
NewCell(locals) == <<"Cell", locals>>

\* A get_task_locals that never finds the task-local.
GetTaskLocalsNone(slot) == None

\* get_task_locals, tokio.rs:78-83: None when TASK_LOCALS is not set on this
\* thread (try_with fails), otherwise what the cell holds.
GetTaskLocals(slot) == IF slot = Unset THEN None ELSE slot[2]

\* The threads that are running a tokio LocalSet.
LocalSetThreads == {1}

\* A spawn_local that puts the task on the multi-threaded scheduler when the
\* thread has no LocalSet.
SpawnLocalAnywhere(w) == IF w \in LocalSetThreads THEN w ELSE 0

\* tokio::task::spawn_local called on thread w, tokio.rs:87-92: the task is
\* bound to w's LocalSet; outside a LocalSet the call panics.
SpawnLocal(w) == IF w \in LocalSetThreads THEN w ELSE -1

\* A scope whose poll leaves the task-local installed when it returns.
ScopeLeaveKeeps(cur, prev) == [tls |-> cur, slot |-> cur]

\* A scope that does not keep the value it displaces.
ScopeEnterForgets(cur, held) == [tls |-> held, prev |-> Unset, slot |-> Unset]

\* TASK_LOCALS.scope(cell, fut), tokio.rs:75 and tokio.rs:104, at the start
\* of a poll: the future's value goes into the thread's slot and what was
\* there is kept aside.
ScopeEnter(cur, held) == [tls |-> held, prev |-> cur, slot |-> Unset]

\* ... and at the end of the poll: the value goes back into the future and
\* the thread's slot gets back what was there before.
ScopeLeave(cur, prev) == [tls |-> prev, slot |-> cur]

\* The scoped future the code running on thread w is directly inside (0: it
\* is inside none).
Inside(w) == IF stack[w] = <<>> THEN 0 ELSE stack[w][Len(stack[w])].fut

\* scope(locals, fut) / scope_local(locals, fut), called by code running on
\* thread w: the scoped future is made; it is awaited where it was made.
Scope(w, f, l) ==
    /\ sfut[f].st = "none"
    /\ sfut' = [sfut EXCEPT ![f] =
                   [NoScoped EXCEPT !.st = "idle", !.kind = "scope",
                                    !.slot = NewCell(l), !.locals = l,
                                    !.parent = Inside(w)]]
    /\ UNCHANGED <<tls, stack, run>>
    /\ UNCHANGED <<intoVars, loopVars, pyVars, rtVars, gil, tokioVars>>

\* Thread w polls the scoped future f: a top-level one when w is in no scope
\* (a spawned task picked up by a worker, a local one only by its own
\* thread), a nested one from inside the future that awaits it.
PollEnter(w, f) ==
    /\ sfut[f].st = "idle"
    /\ sfut[f].parent = Inside(w)
    /\ sfut[f].pin \in {0, w}
    /\ LET e == ScopeEnter(tls[w], sfut[f].slot)
       IN /\ tls' = [tls EXCEPT ![w] = e.tls]
          /\ stack' = [stack EXCEPT ![w] = Append(@, [fut |-> f, prev |-> e.prev])]
          /\ sfut' = [sfut EXCEPT ![f].st = "polling", ![f].slot = e.slot,
                                  ![f].on = w]
    /\ UNCHANGED run
    /\ UNCHANGED <<intoVars, loopVars, pyVars, rtVars, gil, tokioVars>>

\* The poll of the innermost scoped future on thread w returns: Ready (the
\* future is complete) or Pending (it is suspended and polled again later).
PollLeave(w, isReady) ==
    /\ stack[w] # <<>>
    /\ sfut[Inside(w)].kind # "task"
    /\ LET fr == stack[w][Len(stack[w])]
           l == ScopeLeave(tls[w], fr.prev)
       IN /\ tls' = [tls EXCEPT ![w] = l.tls]
          /\ stack' = [stack EXCEPT ![w] = SubSeq(@, 1, Len(@) - 1)]
          /\ sfut' = [sfut EXCEPT ![fr.fut].st = IF isReady THEN "done" ELSE "idle",
                                  ![fr.fut].slot = l.slot,
                                  ![fr.fut].on = 0,
                                  ![fr.fut].suspended = (@ \/ ~isReady)]
    /\ UNCHANGED run
    /\ UNCHANGED <<intoVars, loopVars, pyVars, rtVars, gil, tokioVars>>

\* The task TokioRuntime::spawn(fut) gives the runtime, tokio.rs:59-63,
\* called from inside `by` (0: from inside no scoped future): the future as
\* it was given, or, when the caller wrapped it in scope(l, _) first, the
\* scoped future with its own cell.  Nothing of the caller's goes with it.
SpawnedTask(by, l) ==
    IF l = None
    THEN [NoScoped EXCEPT !.st = "idle", !.kind = "task", !.by = by]
    ELSE [NoScoped EXCEPT !.st = "idle", !.kind = "scoped_task",
                          !.slot = NewCell(l), !.locals = l, !.by = by]

\* TokioRuntime::spawn called by code running on thread w.
SpawnCall(w, f, l) ==
    /\ sfut[f].st = "none"
    /\ sfut' = [sfut EXCEPT ![f] = SpawnedTask(Inside(w), l)]
    /\ UNCHANGED <<tls, stack, run>>
    /\ UNCHANGED <<intoVars, loopVars, pyVars, rtVars, gil, tokioVars>>

\* A worker that is polling nothing picks up the spawned task f, which is
\* wrapped in no scope, and polls it: the thread's TASK_LOCALS slot is not
\* touched.
TaskPollEnter(w, f) ==
    /\ sfut[f].st = "idle"
    /\ sfut[f].kind = "task"
    /\ Inside(w) = 0
    /\ stack' = [stack EXCEPT ![w] = Append(@, [fut |-> f, prev |-> Unset])]
    /\ sfut' = [sfut EXCEPT ![f].st = "polling", ![f].on = w]
    /\ UNCHANGED <<tls, run>>
    /\ UNCHANGED <<intoVars, loopVars, pyVars, rtVars, gil, tokioVars>>

\* The poll of the spawned task returns, Ready or Pending.
TaskPollLeave(w, isReady) ==
    /\ stack[w] # <<>>
    /\ sfut[Inside(w)].kind = "task"
    /\ stack' = [stack EXCEPT ![w] = SubSeq(@, 1, Len(@) - 1)]
    /\ sfut' = [sfut EXCEPT ![Inside(w)].st = IF isReady THEN "done" ELSE "idle",
                            ![Inside(w)].on = 0,
                            ![Inside(w)].suspended = (@ \/ ~isReady)]
    /\ UNCHANGED <<tls, run>>
    /\ UNCHANGED <<intoVars, loopVars, pyVars, rtVars, gil, tokioVars>>

\* TaskLocals::with_running_loop(py)?.copy_context(py), asked on thread w:
\* the loop running on that thread and the current context; only the host
\* loop's thread has a running loop.
HostRunning(w) ==
    IF w = 1 THEN Ok(TaskLocals("hostloop", "hostctx")) ELSE Err("RuntimeError")

\* get_current_locals, tokio.rs:132-136: the task-locals if there are any,
\* otherwise the host's running loop and context.
GetCurrentLocals(slot, w) ==
    IF GetTaskLocals(slot) # None THEN Ok(GetTaskLocals(slot))
    ELSE HostRunning(w)

\* get_current_loop, tokio.rs:123-130: the loop of get_current_locals.
GetCurrentLoop(slot, w) ==
    LET r == GetCurrentLocals(slot, w)
    IN IF r[1] = "Ok" THEN Ok(r[2][1]) ELSE r

\* The task a conversion spawns: the native future inside scope(locals, _),
\* bound to thread `pin` (0: any worker may poll it).
ConversionTask(kind, l, pin) ==
    [NoScoped EXCEPT !.st = "idle", !.kind = kind, !.slot = NewCell(l),
                     !.locals = l, !.pin = pin]

\* future_into_py_with_locals(py, locals, fut), tokio.rs:312-318: the task
\* is spawned on the multi-threaded scheduler.
FutureIntoPyWithLocals(f, l) ==
    /\ sfut[f].st = "none"
    /\ sfut' = [sfut EXCEPT ![f] = ConversionTask("conversion", l, 0)]
    /\ UNCHANGED <<tls, stack, run>>
    /\ UNCHANGED <<intoVars, loopVars, pyVars, rtVars, gil, tokioVars>>

\* local_future_into_py_with_locals(py, locals, fut), tokio.rs:596-606,
\* called on thread w: the task is spawned with spawn_local, which panics
\* when w runs no LocalSet.
LocalFutureIntoPyWithLocals(w, f, l) ==
    /\ sfut[f].st = "none"
    /\ sfut' = [sfut EXCEPT ![f] =
                   IF SpawnLocal(w) = -1
                   THEN [NoScoped EXCEPT !.st = "panic", !.kind = "local"]
                   ELSE ConversionTask("local", l, SpawnLocal(w))]
    /\ UNCHANGED <<tls, stack, run>>
    /\ UNCHANGED <<intoVars, loopVars, pyVars, rtVars, gil, tokioVars>>

\* The loop tokio::run makes and drives, and the task-locals it converts the
\* future with.
RunLoop == "runloop"
RunLocals == TaskLocals(RunLoop, "runctx")

\* run(py, fut), tokio.rs:221-227, called with a future that will
\* finish with res: a new loop is made, the future is converted with the
\* task-locals of that loop, and the loop is driven until the conversion's
\* awaitable is done.
RunCall(f, res) ==
    /\ run.st = "none"
    /\ sfut[f].st = "none"
    /\ run' = [st |-> "driving", fut |-> f, loop |-> RunLoop, will |-> res,
               ret |-> None]
    /\ sfut' = [sfut EXCEPT ![f] = ConversionTask("run", RunLocals, 0)]
    /\ UNCHANGED <<tls, stack>>
    /\ UNCHANGED <<intoVars, loopVars, pyVars, rtVars, gil, tokioVars>>

\* The host's run_until_complete returns when the awaitable is done, and run
\* returns what the future finished with.
RunReturn ==
    /\ run.st = "driving"
    /\ sfut[run.fut].st = "done"
    /\ run' = [run EXCEPT !.st = "returned", !.ret = run.will]
    /\ UNCHANGED <<tls, stack, sfut>>
    /\ UNCHANGED <<intoVars, loopVars, pyVars, rtVars, gil, tokioVars>>

NextTl ==
    \/ \E w \in Threads, f \in Scoped, l \in Locals : Scope(w, f, l)
    \/ \E w \in Threads, f \in Scoped : PollEnter(w, f)
    \/ \E w \in Threads, r \in BOOLEAN : PollLeave(w, r)
    \/ \E f \in Scoped, l \in Locals : FutureIntoPyWithLocals(f, l)
    \/ \E w \in Threads, f \in Scoped, l \in Locals :
           LocalFutureIntoPyWithLocals(w, f, l)
    \/ \E f \in Scoped, res \in {Ok("v1"), Err("e1")} : RunCall(f, res)
    \/ RunReturn

SpecTl == Init /\ [][NextTl]_vars

\* The futures are numbered in the order they are made: f is the next one.
NextMade(f) == \A g \in Scoped : g < f => sfut[g].st # "none"

\* Scoped futures, local conversions and tasks spawned from the code they
\* run, polled by the workers in any order.
NextSpawn ==
    \/ \E w \in Threads, f \in Scoped, l \in Locals :
           NextMade(f) /\ Scope(w, f, l)
    \/ \E w \in Threads, f \in Scoped, l \in Locals :
           NextMade(f) /\ LocalFutureIntoPyWithLocals(w, f, l)
    \/ \E w \in Threads, f \in Scoped : PollEnter(w, f)
    \/ \E w \in Threads, r \in BOOLEAN : PollLeave(w, r)
    \/ \E w \in Threads, f \in Scoped, l \in Locals \cup {None} :
           NextMade(f) /\ SpawnCall(w, f, l)
    \/ \E w \in Threads, f \in Scoped : TaskPollEnter(w, f)
    \/ \E w \in Threads, r \in BOOLEAN : TaskPollLeave(w, r)

SpecSpawn == Init /\ [][NextSpawn]_vars

-----------------------------------------------------------------------------
(* tokio.rs: init and get_runtime *)

\* Everything but the runtime's statics.
restVars == <<intoVars, loopVars, pyVars, rtVars, tlVars, gil>>

\* A cell whose initializer runs although another thread is running it.
GetOrInitRacy(cell, running) == IF cell.id # 0 THEN "get" ELSE "init"

\* OnceCell::get_or_init on TOKIO_RUNTIME (tokio.rs:145): the stored runtime
\* if the cell is set; else wait while another thread runs the initializer;
\* else run it.
GetOrInit(cell, running) ==
    IF cell.id # 0 THEN "get"
    ELSE IF running # 0 THEN "wait"
    ELSE "init"

\* A build that ignores the stored builder.
BuildDefault(builder, id) == Runtime(id, MultiThread)

\* Builder::build on the stored builder (tokio.rs:146-149): a new runtime
\* with that builder's configuration.
Build(builder, id) == Runtime(id, builder)

\* *TOKIO_BUILDER.lock().unwrap() = builder, tokio.rs:140
InitStores(stored, builder) == builder

\* Thread t can make one more call.
CanCallTokio(t) ==
    /\ tcall[t].pc = "idle"
    /\ tokio.calls < MaxTokioCalls

\* init(builder) on thread t (tokio.rs:139-141): the stored builder is
\* replaced under the mutex; lock().unwrap() panics when the mutex is
\* poisoned.
TokioInit(t, b) ==
    /\ CanCallTokio(t)
    /\ IF tokio.poisoned
       THEN /\ tokio' = [tokio EXCEPT !.calls = @ + 1]
            /\ tcall' = [tcall EXCEPT ![t] =
                             [NoTokioCall EXCEPT !.op = "init", !.arg = b,
                                                 !.ret = Panicked]]
       ELSE /\ tokio' = [tokio EXCEPT !.builder = InitStores(@, b),
                                      !.inits = @ + 1, !.lastInit = b,
                                      !.calls = @ + 1]
            /\ tcall' = [tcall EXCEPT ![t] =
                             [NoTokioCall EXCEPT !.op = "init", !.arg = b,
                                                 !.ret = Returned0]]
    /\ UNCHANGED restVars

\* Thread t is at TOKIO_RUNTIME.get_or_init: it returns the stored runtime,
\* waits for the thread running the initializer, or becomes that thread.
EnterGetOrInit(t, call) ==
    LET d == GetOrInit(tokio.runtime, tokio.running)
    IN [call |-> CASE d = "get" -> [call EXCEPT !.pc = "idle",
                                                 !.ret = tokio.runtime]
                   [] d = "wait" -> [call EXCEPT !.pc = "waiting"]
                   [] OTHER -> [call EXCEPT !.pc = "building"],
        running |-> IF d = "init" THEN t ELSE tokio.running]

\* get_runtime() called on thread t, tokio.rs:144-145
GetRuntimeCall(t) ==
    /\ CanCallTokio(t)
    /\ LET e == EnterGetOrInit(t, [NoTokioCall EXCEPT
                                      !.op = "get_runtime",
                                      !.early = (tokio.runtime.id = 0)])
       IN /\ tcall' = [tcall EXCEPT ![t] = e.call]
          /\ tokio' = [tokio EXCEPT !.running = e.running, !.calls = @ + 1]
    /\ UNCHANGED restVars

\* The initializer has ended on another thread: the waiting thread looks at
\* the cell again.
GetRuntimeWake(t) ==
    /\ tcall[t].pc = "waiting"
    /\ tokio.running = 0
    /\ LET e == EnterGetOrInit(t, tcall[t])
       IN /\ tcall' = [tcall EXCEPT ![t] = e.call]
          /\ tokio' = [tokio EXCEPT !.running = e.running]
    /\ UNCHANGED restVars

\* The initializer on thread t (tokio.rs:146-150): the builder's mutex is
\* locked (a poisoned mutex panics), the runtime is built from the stored
\* builder and put into the cell; a failed build panics in expect with the
\* mutex locked, which poisons it, and leaves the cell empty.
GetRuntimeBuild(t, ok) ==
    /\ tcall[t].pc = "building"
    /\ IF tokio.poisoned \/ ~ok
       THEN /\ tokio' = [tokio EXCEPT !.poisoned = TRUE, !.running = 0]
            /\ tcall' = [tcall EXCEPT ![t].pc = "idle", ![t].ret = Panicked]
       ELSE LET new == Build(tokio.builder, tokio.builds + 1)
                kept == IF tokio.runtime.id # 0 THEN tokio.runtime ELSE new
            IN /\ tokio' = [tokio EXCEPT !.runtime = kept, !.builds = @ + 1,
                                         !.running = 0]
               /\ tcall' = [tcall EXCEPT ![t].pc = "idle", ![t].ret = kept]
    /\ UNCHANGED restVars

NextTokio ==
    \/ \E t \in Threads, b \in Builders : TokioInit(t, b)
    \/ \E t \in Threads : GetRuntimeCall(t)
    \/ \E t \in Threads : GetRuntimeWake(t)
    \/ \E t \in Threads, ok \in BOOLEAN : GetRuntimeBuild(t, ok)

SpecTokio == Init /\ [][NextTokio]_vars

-----------------------------------------------------------------------------
(* Task-locals, local conversions and run: properties *)

\* C11: on every thread, at every point, get_task_locals returns the locals
\* of the scoped future the thread is polling (the innermost one), and None
\* when the thread is polling none: before a scope is entered, while the
\* scoped future is suspended, and right after its poll returned Ready.
C11_ScopeVisibleInsideOnly ==
    \A w \in Threads :
        /\ Inside(w) # 0 => GetTaskLocals(tls[w]) = sfut[Inside(w)].locals
        /\ Inside(w) = 0 => GetTaskLocals(tls[w]) = None

\* A future made by scope was suspended, polled again and has completed; the
\* thread that polled it is in no scope now.
C11_Witness ==
    \E f \in Scoped :
        /\ sfut[f].kind = "scope" /\ sfut[f].parent = 0
        /\ sfut[f].st = "done" /\ sfut[f].suspended
        /\ \A w \in Threads : Inside(w) = 0 /\ tls[w] = Unset

\* C12: on a thread polling the native future of a future_into_py_with_locals
\* or local_future_into_py_with_locals conversion, get_current_locals returns
\* the TaskLocals the conversion was given, also on the thread where the host
\* has a running loop of its own.
C12_ConversionLocalsAmbient ==
    \A w \in Threads :
        (Inside(w) # 0 /\ sfut[Inside(w)].kind \in {"conversion", "local"}) =>
            /\ GetCurrentLocals(tls[w], w) = Ok(sfut[Inside(w)].locals)
            /\ GetCurrentLocals(tls[w], w) # HostRunning(w)

\* The host loop's thread polls the future of a conversion made with loop2.
C12_Witness ==
    /\ Inside(1) # 0
    /\ sfut[Inside(1)].kind = "conversion"
    /\ sfut[Inside(1)].locals = TaskLocals("loop2", "ctx2")
    /\ HostRunning(1)[1] = "Ok"

\* C19: a local conversion called on a thread that runs no LocalSet panics:
\* no task is made for it; and the task of a local conversion is bound to the
\* LocalSet of the calling thread and never polled by another thread.
C19_LocalNeedsLocalSet ==
    /\ [](\A f \in Scoped :
            sfut[f].kind = "local" =>
                \/ sfut[f].st = "panic" /\ sfut[f].slot = Unset /\ sfut[f].pin = 0
                \/ /\ sfut[f].st # "panic"
                   /\ sfut[f].pin \in LocalSetThreads
                   /\ sfut[f].on \in {0, sfut[f].pin})
    /\ [][\A w \in Threads \ LocalSetThreads, f \in Scoped, l \in Locals :
             LocalFutureIntoPyWithLocals(w, f, l) => sfut'[f].st = "panic"]_vars

\* A local conversion has panicked, and another one, called inside the
\* LocalSet, is being polled there.
C19_Witness ==
    \E f, g \in Scoped :
        /\ sfut[f].kind = "local" /\ sfut[f].st = "panic"
        /\ sfut[g].kind = "local" /\ sfut[g].st = "polling" /\ sfut[g].on = 1

-----------------------------------------------------------------------------
(* Closing, nested scopes, the interpreter lock, the callbacks' threads, the
   placeholder and the tokio runtime: properties *)

\* C23: over every sequence of try_init, try_close and with_runtime calls
\* the registry is populated at most once, and the executor's shutdown, the
\* loop's stop and the loop's close are each performed at most once.
C23_InitOnceCloseOnce ==
    /\ host.populations <= 1
    /\ host.shutdowns <= 1
    /\ host.stops <= 1
    /\ host.closes <= 1

\* C24: scopes nest.  While a thread polls a scoped future made inside
\* another scoped future, get_task_locals returns the inner locals and the
\* outer ones are kept aside; once the inner future has completed,
\* get_task_locals inside the outer future returns the outer locals again.
C24_ScopesNest ==
    /\ \A w \in Threads :
           Len(stack[w]) >= 2 =>
               LET top == stack[w][Len(stack[w])]
                   below == stack[w][Len(stack[w]) - 1]
               IN /\ sfut[top.fut].parent = below.fut
                  /\ GetTaskLocals(tls[w]) = sfut[top.fut].locals
                  /\ GetTaskLocals(top.prev) = sfut[below.fut].locals
    /\ \A w \in Threads, g \in Scoped :
           (sfut[g].parent # 0 /\ sfut[g].st = "done"
                /\ Inside(w) = sfut[g].parent) =>
               GetTaskLocals(tls[w]) = sfut[sfut[g].parent].locals

\* An inner scope with loop2 has completed, after a suspension, inside an
\* outer scope with loop1 that a thread is still polling.
C24_Witness ==
    \E w \in Threads, g \in Scoped :
        /\ sfut[g].parent # 0 /\ sfut[g].st = "done" /\ sfut[g].suspended
        /\ sfut[g].locals = TaskLocals("loop2", "ctx2")
        /\ Inside(w) = sfut[g].parent
        /\ sfut[Inside(w)].locals = TaskLocals("loop1", "ctx1")
        /\ GetTaskLocals(tls[w]) = TaskLocals("loop1", "ctx1")

\* C25: no native task holds the interpreter lock while its future is
\* suspended or after the future has resolved: a task holds the lock only
\* inside a poll whose receiver is disconnected, the poll that returns Ready
\* with CancelledError; a future fresh from try_from, one that returned
\* Pending and one that is Ready hold no lock.
C25_NeverSuspendedWithGil ==
    \A c \in Conv :
        /\ pyfut[c].st # "locked" => gil # NativeTask(c)
        /\ gil = NativeTask(c) =>
               /\ pyfut[c].st = "locked"
               /\ Recv(chan[c]) = <<"Ready", "Canceled", None>>
               /\ PollOutput(Recv(chan[c])) = <<"Ready", CanceledOutput>>

\* The task of one conversion is inside with_gil while the future of another
\* is suspended and its callback waits in the loop's queue.
C25_Witness ==
    \E c, d \in Conv :
        /\ gil = NativeTask(c) /\ pyfut[c].st = "locked"
        /\ pyfut[d].st = "pending" /\ Recv(chan[d])[1] = "Pending"
        /\ Queued("ensure", d)

\* C26: the awaitable of a conversion is made a host task, and the completion
\* handler attached, only by the loop running the PyEnsureFuture at the head
\* of its queue, never by the step in which into_future is called: after
\* try_from has returned and until the loop invokes the callback nothing has
\* been wrapped or attached.
C26_WrappedOnLoopOnly ==
    /\ [](\A c \in Conv :
            ensureFut[c].calls = 0 =>
                /\ ensureFut[c].wrapped = 0 /\ ensureFut[c].attached = 0
                /\ task[c].st = "none" /\ completer[c].st = "none")
    /\ [][\A c \in Conv :
             (\/ ensureFut'[c].wrapped # ensureFut[c].wrapped
              \/ ensureFut'[c].attached # ensureFut[c].attached
              \/ task[c].st = "none" /\ task'[c].st # "none"
              \/ completer[c].st = "none" /\ completer'[c].st # "none") =>
                 /\ AtHead("ensure", c)
                 /\ ensureFut'[c].calls = ensureFut[c].calls + 1
                 /\ pyfut'[c] = pyfut[c]]_vars

\* The loop has wrapped the awaitable of one conversion whose future is
\* pending, while another conversion's callback is still in the queue with
\* nothing wrapped.
C26_Witness ==
    \E c, d \in Conv :
        /\ ensureFut[c].st = "released" /\ ensureFut[c].wrapped = 1
        /\ ensureFut[c].attached = 1 /\ task[c].st = "pending"
        /\ pyfut[c].st = "pending"
        /\ Queued("ensure", d) /\ pyfut[d].st = "pending"
        /\ ensureFut[d].wrapped = 0 /\ task[d].st = "none"

\* C27: whenever the loop invokes a conversion's PyTaskCompleter the host
\* task is done: the callback waits in the loop's queue only for a task that
\* is done, the assertion on task.done() has held at every invocation, and a
\* payload is in the channel only after the completer ran for a finished
\* task.
C27_CompleterAfterTaskDone ==
    \A c \in Conv :
        /\ Queued("completer", c) => task[c].st = "done"
        /\ completer[c].calls > 0 =>
               /\ task[c].st = "done"
               /\ completer[c].ret = "ok"
        /\ chan[c].sends > 0 =>
               /\ completer[c].calls > 0
               /\ task[c].result = awaitable[c].out

\* A completer ran for a task that raised, while the callback of another
\* conversion, whose task is done too, still waits in the queue.
C27_Witness ==
    \E c, d \in Conv :
        /\ completer[c].calls = 1 /\ completer[c].ret = "ok"
        /\ task[c].st = "done" /\ task[c].result = Err("e1")
        /\ chan[c].sends = 1 /\ pyfut[c].st = "pending"
        /\ Queued("completer", d) /\ task[d].st = "done"

C29_OneRuntime ==
    /\ [](/\ tokio.builds <= 1
          /\ tokio.runtime.id # 0 <=> tokio.builds = 1
          /\ \A t, u \in Threads :
                 (tcall[t].pc = "building" /\ tcall[u].pc = "building") => t = u
          /\ \A t \in Threads :
                 (tcall[t].op = "get_runtime" /\ tcall[t].pc = "idle"
                      /\ tcall[t].ret # Panicked) =>
                     /\ tcall[t].ret = tokio.runtime
                     /\ tcall[t].ret.id = 1)
    /\ [][tokio.runtime.id # 0 => tokio'.runtime = tokio.runtime]_vars

\* Two threads called get_runtime while the cell was empty; both have
\* returned the same runtime.
C29_Witness ==
    /\ \A t \in {1, 2} :
           /\ tcall[t].op = "get_runtime" /\ tcall[t].early
           /\ tcall[t].pc = "idle" /\ tcall[t].ret = tokio.runtime
    /\ tokio.runtime.id = 1

\* C30: the stored builder is the one of the last init call, multi_thread()
\* before any; the runtime is built, during the first get_runtime call, from
\* the builder stored when that call's initializer takes it; and an init
\* call made once the runtime exists replaces the stored builder and leaves
\* the runtime as it is.
C30_BuiltFromStoredBuilder ==
    /\ [](tokio.builder = IF tokio.inits = 0 THEN MultiThread ELSE tokio.lastInit)
    /\ [][(tokio.runtime.id = 0 /\ tokio'.runtime.id # 0) =>
             tokio'.runtime.from =
                 IF tokio.inits = 0 THEN MultiThread ELSE tokio.lastInit]_vars
    /\ [][\A t \in Threads, b \in Builders :
             (TokioInit(t, b) /\ tokio.runtime.id # 0) =>
                 /\ tokio'.builder = b
                 /\ tokio'.runtime = tokio.runtime]_vars

\* The runtime was built from the custom builder of an earlier init, and an
\* init made since has stored another builder.
C30_Witness ==
    \E t \in Threads :
        /\ tokio.runtime = Runtime(1, "custom")
        /\ tokio.inits >= 2
        /\ tcall[t].op = "init" /\ tcall[t].arg = "current_thread"
        /\ tcall[t].ret = Returned0
        /\ tokio.builder = "current_thread"

-----------------------------------------------------------------------------
(* The registry's cells, a failed try_init, the registry after try_close,
   task-locals of spawned tasks, try_init under the interpreter lock and a
   failed scheduling: properties *)

\* C31: whenever the loop cell EVENT_LOOP is set every other cell of the
\* registry is set too (the closure's stores come before the loop's), so
\* that from then on get_event_loop and run_forever find the loop, every
\* statement of try_close finds the cell it reads, and the cells a
\* conversion reads hold their handles: none ends in the not-initialized
\* panic.
C31_LoopCellLast ==
    cache["EVENT_LOOP"] # 0 =>
        /\ \A c \in Cells : cache[c] # 0
        /\ registry = Cells
        /\ \A t \in Threads : GetEventLoop(cache, t) # Panic
        /\ \A step \in {"close_shutdown", "close_stop", "close_close"} :
               cache[CellOf(step)] # 0

\* After a try_init that went through, one thread got the loop from
\* get_event_loop and another ran try_close to its end.
C31_Witness ==
    /\ cache["EVENT_LOOP"] # 0
    /\ \E t, u \in Threads :
           /\ thr[t].op = "get_event_loop" /\ thr[t].ret[1] = "Handle"
           /\ thr[u].op = "try_close" /\ thr[u].ret = Ok(Unit)

\* Thread t's closure ends in a raised exception: in the import / loop
\* lookup / executor creation, in set_default_executor, or in a getattr.
InitFails(t) ==
    \/ InitImport(t, FALSE)
    \/ InitInstall(t, "install_raises")
    \/ InitInstall(t, "getattr_raises")

\* C32: a try_init whose closure raises returns that error (to its caller,
\* or as with_runtime's result) and leaves every cell of the registry empty;
\* the failure is not remembered: no thread holds the cell's initializer
\* afterwards, and the next try_init runs the closure again.
C32_FailedInitNotCached ==
    [][\A t \in Threads :
          InitFails(t) =>
              /\ thr'[t].pc = "done"
              /\ thr'[t].ret = Err("e1")
              /\ cache' = EmptyCache
              /\ registry' = {}
              /\ once' = 0
              /\ GetOrTryInit(cache'["EVENT_LOOP"], once') = "init"]_vars

\* A try_init failed after it had made an executor; a later try_init ran the
\* closure again, made a second executor and went through.
C32_Witness ==
    \E t, u \in Threads :
        /\ InitReturned(t) /\ thr[t].ret = Err("e1")
        /\ InitReturned(u) /\ thr[u].ret = Ok(Unit) /\ thr[u].exec = 2
        /\ \A c \in Cells : cache[c] # 0

\* C33: try_close leaves the registry as it is: no statement of it changes
\* a cell, the closed loop stays cached, and once the loop is closed
\* get_event_loop still returns the cached handle, a try_init returns Ok(())
\* at once without making an executor or storing anything, and a
\* with_runtime goes on to run its closure against the closed loop.
C33_CloseKeepsRegistry ==
    /\ [](loopClosed => cache["EVENT_LOOP"] # 0)
    /\ [][\A t \in Threads :
             /\ (/\ thr[t].pc \in {"close_shutdown", "close_stop", "close_close"}
                 /\ (CloseStep(t, TRUE) \/ CloseStep(t, FALSE))) =>
                    cache' = cache /\ registry' = registry
             /\ (loopClosed /\ GetEventLoopCall(t)) =>
                    thr'[t].ret = Handle(cache["EVENT_LOOP"])
             /\ (loopClosed /\ TryInitCall(t)) =>
                    /\ thr'[t].pc = "done" /\ thr'[t].ret = Ok(Unit)
                    /\ UNCHANGED <<cache, registry, host, once, loopClosed>>
             /\ (loopClosed /\ WithRuntimeCall(t)) =>
                    /\ thr'[t].pc = "closure"
                    /\ UNCHANGED <<cache, registry, host, once, loopClosed>>]_vars

\* After a with_runtime that closed the loop, the same thread's second
\* with_runtime is in its closure and another thread's get_event_loop has
\* returned the cached loop; one executor was ever made.
C33_Witness ==
    \E t, u \in Threads :
        /\ loopClosed
        /\ thr[t].op = "with_runtime" /\ thr[t].pc = "closure"
        /\ thr[t].calls = 2 /\ thr[u].calls = 1
        /\ thr[u].op = "get_event_loop"
        /\ thr[u].ret = Handle(cache["EVENT_LOOP"])
        /\ host.executors = 1 /\ host.closes = 1

\* The worker polling f has entered no other future inside it.
Running(f) == sfut[f].st = "polling" /\ Inside(sfut[f].on) = f

\* C34: task-locals belong to the scoped future, not to the thread and not
\* to the tasks it spawns.  Inside a task spawned without a scope
\* get_task_locals returns None, whatever the locals of the code that
\* spawned it and whatever was polled on the worker before; inside a spawned
\* task that is wrapped in scope it returns that scope's locals; and while a
\* worker polls one top-level scoped future, a suspended one keeps its own
\* locals in its own cell.
C34_LocalsNotInherited ==
    /\ \A f \in Scoped :
           (sfut[f].kind = "task" /\ Running(f)) =>
               GetTaskLocals(tls[sfut[f].on]) = None
    /\ \A f \in Scoped :
           (sfut[f].kind = "scoped_task" /\ Running(f)) =>
               GetTaskLocals(tls[sfut[f].on]) = sfut[f].locals
    /\ \A f, g \in Scoped :
           (/\ f # g /\ Running(f) /\ sfut[g].st = "idle"
            /\ sfut[f].kind # "task" /\ sfut[g].kind # "task") =>
               /\ GetTaskLocals(tls[sfut[f].on]) = sfut[f].locals
               /\ GetTaskLocals(sfut[g].slot) = sfut[g].locals

\* A local conversion's future, polled on the LocalSet's thread and now
\* suspended, spawned a task without a scope; the same thread polls that
\* task, which finds no task-locals.
C34_Witness ==
    \E f, h \in Scoped :
        /\ sfut[f].kind = "local" /\ sfut[f].pin = 1
        /\ sfut[f].st = "idle" /\ sfut[f].suspended
        /\ sfut[f].locals \in Locals
        /\ sfut[h].kind = "task" /\ sfut[h].by = f
        /\ Running(h) /\ sfut[h].on = 1
        /\ GetTaskLocals(tls[1]) = None

\* C35: every try_init call returns, however the callers interleave: a
\* thread that waits on the once-cell with the interpreter lock in its hands
\* is never stuck behind the thread that runs the closure, which needs the
\* lock to end it.
C35_TryInitReturns ==
    \A t \in Threads :
        (thr[t].op = "try_init" /\ thr[t].pc # "done") ~> (thr[t].pc = "done")

\* C36: a try_from whose call_soon_threadsafe raises (the loop is closed)
\* returns the error and no future; the callback object is discarded and the
\* sender dropped with it, nothing is added to the loop's queue, and from
\* then on the awaitable is never wrapped: no ensure_future call, no host
\* task, no completion handler.
C36_FailedScheduleNoTask ==
    /\ [](\A c \in Conv :
             pyfut[c].st = "err" =>
                 /\ ensureFut[c].st = "released" /\ ~ensureFut[c].tx
                 /\ ensureFut[c].calls = 0 /\ ensureFut[c].wrapped = 0
                 /\ ensureFut[c].attached = 0
                 /\ task[c] = NoTask /\ completer[c] = NoCompleter
                 /\ chan[c].drops = 1 /\ chan[c].sends = 0
                 /\ chan[c].rx = "dropped"
                 /\ ~Queued("ensure", c) /\ ~Queued("completer", c)
                 /\ gil # NativeTask(c))
    /\ [][\A c \in Conv, a \in Awaitables :
             (/\ "CALL_SOON" \in registry /\ loopClosed
              /\ PyFuture_try_from(c, a)) =>
                 pyfut'[c].st = "err" /\ ready' = ready]_vars

\* One conversion went through while the loop was open; a coroutine given to
\* try_from after the loop was closed got the error and was never wrapped.
C36_Witness ==
    \E c, d \in Conv :
        /\ loopClosed
        /\ ensureFut[d].wrapped = 1
        /\ pyfut[c].st = "err" /\ awaitable[c].kind = "coro"
        /\ ensureFut[c].wrapped = 0 /\ chan[c].drops = 1

====
